---- MODULE Spec2Model ----
(***************************************************************************)
(* The HTTP data-plane context of v3io-go (package v3iohttp): the request  *)
(* dispatcher (request queue, workers, connection semaphore, request IDs), *)
(* sendRequest with its retry loop and response-buffer handling, and the   *)
(* synchronous operations built on it; and the consumer-group coordinator  *)
(* on top of it, by its specified behaviour.                               *)
(*                                                                         *)
(* A synchronous operation is an operator over its input and the sequence  *)
(* `srv` of results the HTTP transport has returned to it so far.  It      *)
(* yields either st = "call" (the code stands at the next transport call), *)
(* st = "ret" (the function returned), or st = "panic".  The actions feed  *)
(* the transport results one at a time, so that threads interleave at the  *)
(* points where the code can block: the semaphore, the transport call and  *)
(* the channels.                                                           *)
(***************************************************************************)
EXTENDS Integers, Sequences, FiniteSets, TLC

\* ------------------------------------------------------------------ bounds

NumContexts == 2        \* contexts created in the process
NumWorkers == 2         \* NewContextInput.NumWorkers of context 1
NumCallers == 2         \* application threads
RequestChanLen == 2     \* NewContextInput.RequestChanLen
ResponseChanLen == 1    \* capacity of a caller's response channel
MaxConns == 1           \* NewContextInput.MaxConns of the capped context
MaxRequests == 2        \* operations started in the concurrent scenario
MaxItems == 2           \* entries of PutItemsInput.Items
MaxChildren == 2        \* entries the server lists under a stream
MaxModeLen == 3         \* characters of a generated FileMode string
MaxPathLen == 4         \* characters of a generated request path
MaxQueryLen == 2        \* characters of a generated query string
MaxHeaderLen == 3       \* words of a generated transaction-verifier header
MaxBytesLen == 4        \* bytes of a generated byte slice attribute
MaxSections == 3        \* value sections of a GetItems response
MaxSectionLen == 2      \* values of one section
NumMembers == 2         \* members of the consumer group
NumShards == 2          \* shards of the consumed stream
ModifyAttempts == 2     \* State.ModifyRetry.Attempts of the group's configuration
MaxModifications == 4   \* writes of the group's state document

\* ------------------------------------------------------- program constants

\* for i := 0; i < 8; i++
RetryAttempts == 8

\* const S_IFMT = 0xf000, const IP_OFFMASK = 0x1fff
S_IFMT == 61440
IP_OFFMASK == 8191

\* ------------------------------------------------------------------ values

Contexts == 1..NumContexts
\* NewContext: context 1 is created with NumWorkers workers, the others with
\* a single worker
numWorkers(c) == IF c = 1 THEN NumWorkers ELSE 1
Workers == UNION {{<<"w", c, i>> : i \in 1..numWorkers(c)} : c \in Contexts}
Callers == {<<"a", 0, k>> : k \in 1..NumCallers}
Threads == Workers \cup Callers
IsWorker(t) == t[1] = "w"

\* error values; resp is the response buffer attached to the error (0: none)
NilErr == [kind |-> "nil", status |-> 0, resp |-> 0]
Err(kind) == [kind |-> kind, status |-> 0, resp |-> 0]

\* what the transport left in response.HTTPResponse
NoHTTP == [err |-> "nil", status |-> 0, body |-> "none", n |-> 0]

\* Response.Output
NoOut == [kind |-> "nil", Success |-> TRUE, Errors |-> <<>>]
Out(kind) == [kind |-> kind, Success |-> TRUE, Errors |-> <<>>]

\* the HTTP request a sendRequest call builds; parse names what the calling
\* operation reads from the response
\* The JSON body of an item request by the keys of it that matter here:
\* UpdateMode ("" if the key is absent), and whether it has an Item and an
\* UpdateExpression; NoBody stands for every other body.
NoBody == [UpdateMode |-> "", Item |-> FALSE, UpdateExpression |-> FALSE]
NoReq == [method |-> "", fn |-> "", parse |-> "", body |-> NoBody]
ReqWithBody(method, fn, parse, body) ==
    [method |-> method, fn |-> fn, parse |-> parse, body |-> body]
Req(method, fn, parse) == ReqWithBody(method, fn, parse, NoBody)

\* DataPlaneInput; Cancelled says whether Ctx is already cancelled
DPI(container, urlOK, include, timeout) ==
    [ContainerName |-> container, URLok |-> urlOK,
     IncludeResponseInError |-> include, Timeout |-> timeout, Cancelled |-> FALSE]

\* the same input with a cancelled Ctx
WithCancelledCtx(dpi) == [dpi EXCEPT !.Cancelled = TRUE]

\* A function result.  rel[b] counts the Release calls made on the b-th
\* response buffer the operation acquired; resp is the buffer returned as
\* *v3io.Response (0: nil); used is the number of transport results consumed.
Return(resp, err, rel, used, http) ==
    [st |-> "ret", attempt |-> 0, req |-> NoReq, via |-> "",
     used |-> used, resp |-> resp, err |-> err, out |-> NoOut,
     rel |-> rel, http |-> http]

\* the code stands at httpClient.Do / DoTimeout, iteration `attempt` of the loop
AtCall(dpi, req, attempt, used) ==
    [st |-> "call", attempt |-> attempt, req |-> req,
     via |-> IF dpi.Timeout <= 0 THEN "Do" ELSE "DoTimeout",
     used |-> used, resp |-> 0, err |-> NilErr, out |-> NoOut,
     rel |-> <<0>>, http |-> NoHTTP]

Rest(srv, used) == SubSeq(srv, used + 1, Len(srv))

\* r is the result of a call made after `used` transport results and the
\* buffers `rel` of the enclosing function: its buffers are numbered after them
Shift(b, k) == IF b = 0 THEN 0 ELSE b + k
After(r, used, rel) ==
    [r EXCEPT !.used = used + r.used, !.rel = rel \o r.rel,
              !.resp = Shift(r.resp, Len(rel)),
              !.err = [r.err EXCEPT !.resp = Shift(r.err.resp, Len(rel))]]

Bump(rel, b) == [rel EXCEPT ![b] = rel[b] + 1]

\* ------------------------------------------------------------- sendRequest

\* if err != fasthttp.ErrConnectionClosed { break }
ShouldRetryAnyError(err) == err # "nil"
ShouldRetry(err) == err = "closed"

RECURSIVE retryLoop(_, _)
\* the retry loop over the transport results: how many it consumed, and
\* whether it stands at a further transport call
retryLoop(srv, i) ==
    IF i >= RetryAttempts THEN [wait |-> FALSE, used |-> i]
    ELSE IF i >= Len(srv) THEN [wait |-> TRUE, used |-> i]
    ELSE IF ShouldRetry(srv[i + 1].err) THEN retryLoop(srv, i + 1)
    ELSE [wait |-> FALSE, used |-> i + 1]

\* success = statusCode >= 200 && statusCode < 300
SuccessBelow400(statusCode) == statusCode >= 200 /\ statusCode < 400
Success(statusCode) == statusCode >= 200 /\ statusCode < 300

\* sendRequest from allocateResponse on; the response is buffer 1
sendRequestBody(dpi, req, releaseResponse, srv) ==
    IF ~dpi.URLok
    THEN Return(0, Err("url"), <<0>>, 0, NoHTTP)
    ELSE LET loop == retryLoop(srv, 0)
             buf == 1
         IN  IF loop.wait
             THEN AtCall(dpi, req, loop.used, loop.used)
             ELSE LET last == srv[loop.used]
                      success == Success(last.status)
                      err == IF last.err # "nil"
                             THEN Err(IF last.err = "closed" THEN "closed" ELSE "transport")
                             ELSE IF ~success
                             THEN [kind |-> "status", status |-> last.status,
                                   resp |-> IF dpi.IncludeResponseInError THEN buf ELSE 0]
                             ELSE NilErr
                  IN  IF err # NilErr
                      THEN Return(0, err,
                                  <<IF dpi.IncludeResponseInError THEN 0 ELSE 1>>,
                                  loop.used, last)
                      ELSE IF releaseResponse
                      THEN Return(0, NilErr, <<1>>, loop.used, last)
                      ELSE Return(buf, NilErr, <<0>>, loop.used, last)

sendRequestNoContainerCheck(dpi, req, releaseResponse, srv) ==
    sendRequestBody(dpi, req, releaseResponse, srv)

sendRequest(dpi, req, releaseResponse, srv) ==
    IF dpi.ContainerName = ""
    THEN Return(0, Err("container"), <<>>, 0, NoHTTP)
    ELSE sendRequestBody(dpi, req, releaseResponse, srv)

\* extractResponseFromError
extractResponseFromError(dpi, err) ==
    IF ~dpi.IncludeResponseInError THEN 0
    ELSE IF err.kind # "status" THEN 0
    ELSE err.resp

\* ------------------------------------------------- synchronous operations
\* An input is [op, dpi, items, form, enc, mode]: items are the entries of
\* PutItemsInput.Items ([key, enc]), form says which of UpdateItemInput's
\* Attributes and Expression are set, enc whether the attribute map holds
\* only values encodeTypedAttributes supports, mode is the UpdateMode.

\* sendRequestAndXMLUnmarshal once sendRequest has given r
unmarshalXML(dpi, output, r) ==
    IF r.st # "ret" THEN r
    ELSE IF r.err # NilErr
    THEN [r EXCEPT !.resp = extractResponseFromError(dpi, r.err),
                   !.out = IF extractResponseFromError(dpi, r.err) # 0
                           THEN Out(output) ELSE NoOut]
    ELSE IF r.http.body # "ok"
    THEN [r EXCEPT !.resp = 0, !.err = Err("decode"), !.rel = Bump(r.rel, r.resp)]
    ELSE [r EXCEPT !.out = Out(output)]

sendRequestAndXMLUnmarshal(dpi, req, output, srv) ==
    unmarshalXML(dpi, output, sendRequest(dpi, req, FALSE, srv))

GetContainersSync(in, srv) ==
    sendRequestAndXMLUnmarshal(in.dpi, Req("GET", "", "xml"), "GetContainersOutput", srv)

GetContainerContentsSync(in, srv) ==
    sendRequestAndXMLUnmarshal(in.dpi, Req("GET", "", "list"),
                               "GetContainerContentsOutput", srv)

\* what GetClusterMDSync, DescribeStreamSync, SeekShardSync, PutRecordsSync and
\* GetRecordsSync do with the result r of their sendRequest: return nil, err on
\* an error, json.Unmarshal the body, return nil, err if that fails, and set
\* response.Output otherwise
unmarshalJSON(r, output) ==
    IF r.st # "ret" THEN r
    ELSE IF r.err # NilErr THEN [r EXCEPT !.resp = 0]
    ELSE IF r.http.body # "ok" THEN [r EXCEPT !.resp = 0, !.err = Err("decode")]
    ELSE [r EXCEPT !.out = Out(output)]

GetClusterMDSync(in, srv) ==
    unmarshalJSON(sendRequest(in.dpi, Req("PUT", "GetClusterMD", "json"), FALSE, srv),
                  "GetClusterMDOutput")

DescribeStreamSync(in, srv) ==
    unmarshalJSON(sendRequest(in.dpi, Req("PUT", "DescribeStream", "json"), FALSE, srv),
                  "DescribeStreamOutput")

SeekShardSync(in, srv) ==
    unmarshalJSON(sendRequest(in.dpi, Req("PUT", "Seek", "json"), FALSE, srv),
                  "SeekShardOutput")

PutRecordsSync(in, srv) ==
    unmarshalJSON(sendRequest(in.dpi, Req("POST", "PutRecords", "json"), FALSE, srv),
                  "PutRecordsOutput")

GetRecordsSync(in, srv) ==
    unmarshalJSON(sendRequest(in.dpi, Req("PUT", "GetRecords", "json"), FALSE, srv),
                  "GetRecordsOutput")

\* GetItemSync once sendRequest has given r: the body is "bad" when
\* json.Unmarshal fails and "badattr" when decodeTypedAttributes fails
decodeItem(r) ==
    IF r.st # "ret" THEN r
    ELSE IF r.err # NilErr THEN [r EXCEPT !.resp = 0]
    ELSE IF r.http.body = "bad" THEN [r EXCEPT !.resp = 0, !.err = Err("decode")]
    ELSE IF r.http.body = "badattr" THEN [r EXCEPT !.resp = 0, !.err = Err("decode")]
    ELSE [r EXCEPT !.out = Out("GetItemOutput")]

GetItemSync(in, srv) ==
    decodeItem(sendRequest(in.dpi, Req("PUT", "GetItem", "item"), FALSE, srv))

\* parseGetItemsResponse: the error, and the Output it leaves in the response
parseGetItemsResponse(http) ==
    IF http.body = "ok" THEN [err |-> NilErr, out |-> Out("GetItemsOutput")]
    ELSE [err |-> Err("decode"), out |-> NoOut]

\* GetItemsSync once sendRequest has given r
parseItems(dpi, r) ==
    IF r.st # "ret" THEN r
    ELSE IF r.err # NilErr
    THEN [r EXCEPT !.resp = extractResponseFromError(dpi, r.err),
                   !.out = IF extractResponseFromError(dpi, r.err) # 0
                           THEN parseGetItemsResponse(r.http).out ELSE NoOut]
    ELSE [r EXCEPT !.err = parseGetItemsResponse(r.http).err,
                   !.out = parseGetItemsResponse(r.http).out]

GetItemsSync(in, srv) ==
    parseItems(in.dpi, sendRequest(in.dpi, Req("PUT", "GetItems", "items"), FALSE, srv))

GetObjectSync(in, srv) ==
    sendRequest(in.dpi, Req("GET", "", "none"), FALSE, srv)

\* an operation that returns only sendRequest's error
errorOf(r) == IF r.st # "ret" THEN r ELSE [r EXCEPT !.resp = 0]

PutObjectSync(in, srv) ==
    errorOf(sendRequest(in.dpi, Req("PUT", "", "none"), TRUE, srv))

UpdateObjectSync(in, srv) ==
    errorOf(sendRequest(in.dpi, Req("PUT", "DirSetAttr", "none"), TRUE, srv))

DeleteObjectSync(in, srv) ==
    errorOf(sendRequest(in.dpi, Req("DELETE", "", "none"), TRUE, srv))

CreateStreamSync(in, srv) ==
    errorOf(sendRequest(in.dpi, Req("POST", "CreateStream", "none"), TRUE, srv))

CheckPathExistsSync(in, srv) ==
    errorOf(sendRequest(in.dpi, Req("HEAD", "", "none"), TRUE, srv))

PutChunkSync(in, srv) ==
    errorOf(sendRequest(in.dpi, Req("POST", "PutChunk", "none"), TRUE, srv))

PutOOSObjectSync(in, srv) ==
    errorOf(sendRequest(in.dpi, Req("PUT", "PutOOSObject", "none"), TRUE, srv))

putItemSendAnyway(dpi, enc, parse, updateMode, srv) ==
    sendRequest(dpi,
                ReqWithBody("PUT", "PutItem", parse,
                            [UpdateMode |-> updateMode, Item |-> TRUE,
                             UpdateExpression |-> FALSE]),
                FALSE, srv)
\* putItem: encodeTypedAttributes, then the request with the Item added to
\* the body; updateMode is the UpdateMode of the body passed, "" if none
putItem(dpi, enc, parse, updateMode, srv) ==
    IF ~enc THEN Return(0, Err("encode"), <<>>, 0, NoHTTP)
    ELSE sendRequest(dpi,
                     ReqWithBody("PUT", "PutItem", parse,
                                 [UpdateMode |-> updateMode, Item |-> TRUE,
                                  UpdateExpression |-> FALSE]),
                     FALSE, srv)

\* the UpdateMode of the body of an update: the one of the input, if any
defaultUpdateMode(updateMode) ==
    IF updateMode # "" THEN updateMode ELSE "CreateOrReplaceAttributes"

\* updateItemWithExpression
updateItemWithExpression(dpi, updateMode, srv) ==
    sendRequest(dpi,
                ReqWithBody("POST", "UpdateItem", "mtime",
                            [UpdateMode |-> defaultUpdateMode(updateMode), Item |-> FALSE,
                             UpdateExpression |-> TRUE]),
                FALSE, srv)

\* parseMtimeHeader on the X-v3io-transaction-verifier header: "ok" parses,
\* "bad" has an unknown term or a non-numeric value, "short" has a term
\* without "==", where mtimeParts[1] is out of range
parseMtimeHeader(http) ==
    IF http.body = "ok" THEN "ok"
    ELSE IF http.body = "short" THEN "panic"
    ELSE "error"

\* what the callers of parseMtimeHeader do with a response r they got
withMtime(r, output) ==
    IF r.st # "ret" THEN r
    ELSE IF r.err # NilErr THEN [r EXCEPT !.resp = 0]
    ELSE IF parseMtimeHeader(r.http) = "panic" THEN [r EXCEPT !.st = "panic"]
    ELSE IF parseMtimeHeader(r.http) = "error"
    THEN [r EXCEPT !.resp = 0, !.err = Err("decode")]
    ELSE [r EXCEPT !.out = Out(output)]

PutItemSync(in, srv) ==
    withMtime(putItem(in.dpi, in.enc, "mtime", in.mode, srv), "PutItemOutput")

\* UpdateItemSync with the expression form tried first
UpdateItemSyncExpressionFirst(in, srv) ==
    IF in.form \in {"expr", "both"}
    THEN withMtime(updateItemWithExpression(in.dpi, in.mode, srv), "UpdateItemOutput")
    ELSE IF in.form = "attrs"
    THEN withMtime(putItem(in.dpi, in.enc, "mtime", defaultUpdateMode(in.mode), srv),
                   "UpdateItemOutput")
    ELSE Return(0, NilErr, <<>>, 0, NoHTTP)
\* UpdateItemSync: the attributes form if Attributes is set, else the
\* expression form if Expression is set, else nothing
UpdateItemSync(in, srv) ==
    IF in.form \in {"attrs", "both"}
    THEN withMtime(putItem(in.dpi, in.enc, "mtime", defaultUpdateMode(in.mode), srv),
                   "UpdateItemOutput")
    ELSE IF in.form = "expr"
    THEN withMtime(updateItemWithExpression(in.dpi, in.mode, srv), "UpdateItemOutput")
    ELSE Return(0, NilErr, <<>>, 0, NoHTTP)

RECURSIVE putItemsLoop(_, _, _, _, _, _), putItemsNext(_, _, _, _, _)
putItemsNextStopOnError(in, i, srv, errors, r) ==
    IF r.st # "ret" THEN r
    ELSE putItemsLoop(in, IF r.err # NilErr THEN Len(in.items) + 1 ELSE i + 1,
                      srv, r.used, r.rel,
                      IF r.err # NilErr
                      THEN Append(errors, [key |-> in.items[i].key, err |-> r.err])
                      ELSE errors)
\* the body of the loop of PutItemsSync for entry i, once putItem has given r
putItemsNext(in, i, srv, errors, r) ==
    IF r.st # "ret" THEN r
    ELSE putItemsLoop(in, i + 1, srv, r.used, r.rel,
                      IF r.err # NilErr
                      THEN Append(errors, [key |-> in.items[i].key, err |-> r.err])
                      ELSE errors)

\* the loop of PutItemsSync from entry i on, after `used` transport results,
\* with the buffers acquired so far in rel and the errors so far in errors
putItemsLoop(in, i, srv, used, rel, errors) ==
    IF i > Len(in.items)
    THEN [Return(1, NilErr, rel, used, NoHTTP) EXCEPT
              !.out = [kind |-> "PutItemsOutput", Success |-> errors = <<>>,
                       Errors |-> errors]]
    ELSE putItemsNext(in, i, srv, errors,
                      After(putItem(in.dpi, in.items[i].enc, "none", "", Rest(srv, used)),
                            used, rel))

\* PutItemsSync: its own response is buffer 1
PutItemsSync(in, srv) == putItemsLoop(in, 1, srv, 0, <<0>>, <<>>)

RECURSIVE deleteShards(_, _, _, _, _), deleteNext(_, _, _, _, _)
\* DeleteStreamSync once the i-th DeleteObjectSync has given r: its error is
\* dropped for a shard, and returned for the stream itself
deleteNext(in, i, n, srv, r) ==
    IF r.st # "ret" THEN r
    ELSE IF i <= n THEN deleteShards(in, i + 1, n, srv, r)
    ELSE r

\* the loop of DeleteStreamSync over the n listed children from child i on,
\* then the delete of the stream itself; acc is the result so far
deleteShards(in, i, n, srv, acc) ==
    deleteNext(in, i, n, srv,
               After(DeleteObjectSync(in, Rest(srv, acc.used)), acc.used, acc.rel))

\* defer response.Release(), run when DeleteStreamSync returns d; l is the listing
deleteStreamReturn(l, d) ==
    IF d.st # "ret" THEN d
    ELSE [d EXCEPT !.rel = Bump(d.rel, l.resp), !.out = NoOut]

\* DeleteStreamSync once GetContainerContentsSync has given l
deleteListed(in, srv, l) ==
    IF l.st # "ret" THEN l
    ELSE IF l.err # NilErr THEN [l EXCEPT !.resp = 0, !.out = NoOut]
    ELSE deleteStreamReturn(l, deleteShards(in, 1, l.http.n, srv, l))

DeleteStreamSync(in, srv) == deleteListed(in, srv, GetContainerContentsSync(in, srv))

\* ---------------------------------------------------------------- dispatch

\* the synchronous methods of the context, by operation name
SyncCall(in, srv) ==
    CASE in.op = "GetContainers" -> GetContainersSync(in, srv)
      [] in.op = "GetClusterMD" -> GetClusterMDSync(in, srv)
      [] in.op = "GetContainerContents" -> GetContainerContentsSync(in, srv)
      [] in.op = "GetItem" -> GetItemSync(in, srv)
      [] in.op = "GetItems" -> GetItemsSync(in, srv)
      [] in.op = "PutItem" -> PutItemSync(in, srv)
      [] in.op = "PutItems" -> PutItemsSync(in, srv)
      [] in.op = "UpdateItem" -> UpdateItemSync(in, srv)
      [] in.op = "GetObject" -> GetObjectSync(in, srv)
      [] in.op = "PutObject" -> PutObjectSync(in, srv)
      [] in.op = "UpdateObject" -> UpdateObjectSync(in, srv)
      [] in.op = "DeleteObject" -> DeleteObjectSync(in, srv)
      [] in.op = "CreateStream" -> CreateStreamSync(in, srv)
      [] in.op = "DescribeStream" -> DescribeStreamSync(in, srv)
      [] in.op = "CheckPathExists" -> CheckPathExistsSync(in, srv)
      [] in.op = "DeleteStream" -> DeleteStreamSync(in, srv)
      [] in.op = "SeekShard" -> SeekShardSync(in, srv)
      [] in.op = "PutRecords" -> PutRecordsSync(in, srv)
      [] in.op = "PutChunk" -> PutChunkSync(in, srv)
      [] in.op = "GetRecords" -> GetRecordsSync(in, srv)
      [] in.op = "PutOOSObject" -> PutOOSObjectSync(in, srv)

\* the type switch of workerEntry: the synchronous operation it runs for the
\* input, or nothing (nil response, nil error) in the default case
workerSwitch(in, srv) ==
    CASE in.op = "PutObject" -> PutObjectSync(in, srv)
      [] in.op = "GetObject" -> GetObjectSync(in, srv)
      [] in.op = "DeleteObject" -> DeleteObjectSync(in, srv)
      [] in.op = "GetItem" -> GetItemSync(in, srv)
      [] in.op = "GetItems" -> GetItemsSync(in, srv)
      [] in.op = "PutItem" -> PutItemSync(in, srv)
      [] in.op = "PutItems" -> PutItemsSync(in, srv)
      [] in.op = "UpdateItem" -> UpdateItemSync(in, srv)
      [] in.op = "CreateStream" -> CreateStreamSync(in, srv)
      [] in.op = "DescribeStream" -> DescribeStreamSync(in, srv)
      [] in.op = "DeleteStream" -> DeleteStreamSync(in, srv)
      [] in.op = "GetRecords" -> GetRecordsSync(in, srv)
      [] in.op = "PutRecords" -> PutRecordsSync(in, srv)
      [] in.op = "PutChunk" -> PutChunkSync(in, srv)
      [] in.op = "SeekShard" -> SeekShardSync(in, srv)
      [] in.op = "GetContainers" -> GetContainersSync(in, srv)
      [] in.op = "GetContainerContents" -> GetContainerContentsSync(in, srv)
      [] in.op = "GetClusterMD" -> GetClusterMDSync(in, srv)
      [] in.op = "CheckPathExists" -> CheckPathExistsSync(in, srv)
      [] OTHER -> Return(0, NilErr, <<>>, 0, NoHTTP)

\* ---------------------------------------------------------- pure functions
\* A string is a sequence of one-character strings.  An unsigned number
\* below 2^32 is kept as its two 16-bit halves [hi, lo].

\* all the strings over the characters chars of up to n characters
Strings(chars, n) == UNION {[1..k -> chars] : k \in 0..n}

\* the value of a character as a digit, 36 if it is none
DigitValue(ch) ==
    CASE ch = "0" -> 0 [] ch = "1" -> 1 [] ch = "2" -> 2 [] ch = "3" -> 3
      [] ch = "4" -> 4 [] ch = "5" -> 5 [] ch = "6" -> 6 [] ch = "7" -> 7
      [] ch = "8" -> 8 [] ch = "9" -> 9 [] OTHER -> 36

\* x AND mask for a mask of adjacent one bits from bit `low` up
And(x, mask, low) == ((x \div 2 ^ low) % ((mask \div 2 ^ low) + 1)) * 2 ^ low

RECURSIVE parseUintFrom(_, _, _, _, _)
\* strconv.ParseUint(s, base, 32) from character i on, with the value so far
parseUintFrom(s, base, i, hi, lo) ==
    IF i > Len(s) THEN [err |-> "nil", hi |-> hi, lo |-> lo]
    ELSE IF DigitValue(s[i]) >= base THEN [err |-> "syntax", hi |-> 0, lo |-> 0]
    ELSE IF hi * base + ((lo * base + DigitValue(s[i])) \div 65536) >= 65536
    THEN [err |-> "range", hi |-> 65535, lo |-> 65535]
    ELSE parseUintFrom(s, base, i + 1,
                       hi * base + ((lo * base + DigitValue(s[i])) \div 65536),
                       (lo * base + DigitValue(s[i])) % 65536)

\* strconv.ParseUint(s, base, 32)
ParseUint(s, base) ==
    IF s = <<>> THEN [err |-> "syntax", hi |-> 0, lo |-> 0]
    ELSE parseUintFrom(s, base, 1, 0, 0)

\* the high half of os.FileMode(x << 17) for x below 2^16: the bits that
\* leave the 32 bits are lost
ShiftLeft16High(x) == x % 65536
ShiftLeft17High(x) == (x * 2) % 65536

\* mode once ParseUint has given m, for a string in octal or in decimal
modeOf(m, octal) ==
    IF m.err # "nil" THEN [err |-> m.err, hi |-> 0, lo |-> S_IFMT]
    ELSE IF octal
    THEN [err |-> "nil", hi |-> ShiftLeft17High(And(m.lo, S_IFMT, 12)),
          lo |-> And(m.lo, IP_OFFMASK, 0)]
    ELSE [err |-> "nil", hi |-> m.hi, lo |-> m.lo]

\* mode(v3ioFileMode)
mode(s) ==
    IF s # <<>> /\ s[1] = "0" THEN modeOf(ParseUint(s, 8), TRUE)
    ELSE modeOf(ParseUint(s, 10), FALSE)

RECURSIVE splitFrom(_, _, _, _, _)
\* the elements of s between its separators sep, from position i on; cur is
\* the element being read and acc the elements read
splitFrom(s, sep, i, cur, acc) ==
    IF i > Len(s) THEN Append(acc, cur)
    ELSE IF s[i] = sep THEN splitFrom(s, sep, i + 1, <<>>, Append(acc, cur))
    ELSE splitFrom(s, sep, i + 1, Append(cur, s[i]), acc)

\* strings.Split(s, sep)
Split(s, sep) == splitFrom(s, sep, 1, <<>>, <<>>)

RECURSIVE cleanFrom(_, _, _)
\* path.Clean of a rooted path over its elements from the i-th on: empty and
\* "." elements are dropped, ".." drops the element before it, and is dropped
\* itself at the root; kept holds the elements kept
cleanFrom(elems, i, kept) ==
    IF i > Len(elems) THEN kept
    ELSE IF elems[i] = <<>> \/ elems[i] = <<".">> THEN cleanFrom(elems, i + 1, kept)
    ELSE IF elems[i] = <<".", ".">>
    THEN cleanFrom(elems, i + 1,
                   IF kept = <<>> THEN kept ELSE SubSeq(kept, 1, Len(kept) - 1))
    ELSE cleanFrom(elems, i + 1, Append(kept, elems[i]))

RECURSIVE rooted(_, _)
\* the rooted path of the elements kept, from the i-th on
rooted(kept, i) ==
    IF i > Len(kept) THEN <<>> ELSE <<"/">> \o kept[i] \o rooted(kept, i + 1)

\* the rooted path of the elements kept: "/" if there is none
rootedOrRoot(kept) == IF kept = <<>> THEN <<"/">> ELSE rooted(kept, 1)

\* path.Clean(path.Join("/", containerName, pathStr))
CleanJoin(containerName, pathStr) ==
    rootedOrRoot(cleanFrom(Split(<<"/">> \o containerName \o <<"/">> \o pathStr, "/"),
                           1, <<>>))

\* strings.HasSuffix(s, "/")
HasSuffixSlash(s) == s # <<>> /\ s[Len(s)] = "/"

RECURSIVE ReplaceSpaces(_, _)
\* strings.Replace(query, " ", "%20", -1), from character i on
ReplaceSpaces(query, i) ==
    IF i > Len(query) THEN <<>>
    ELSE (IF query[i] = " " THEN <<"%", "2", "0">> ELSE <<query[i]>>)
             \o ReplaceSpaces(query, i + 1)

\* buildRequestURI: url.Parse leaves an error for a URL that does not parse,
\* and the scheme and the host of the URL otherwise
buildRequestURI(urlString, containerName, query, pathStr) ==
    IF ~urlString.ok
    THEN [err |-> "url", Host |-> "", Path |-> <<>>, RawQuery |-> <<>>]
    ELSE [err |-> "nil", Host |-> urlString.host,
          Path |-> CleanJoin(containerName, pathStr)
                       \o (IF HasSuffixSlash(pathStr) THEN <<"/">> ELSE <<>>),
          RawQuery |-> ReplaceSpaces(query, 1)]

RECURSIVE cleanRelativeFrom(_, _, _)
\* path.Clean of a path that is not rooted, over its elements from the i-th
\* on: a ".." with no element before it to drop is kept
cleanRelativeFrom(elems, i, kept) ==
    IF i > Len(elems) THEN kept
    ELSE IF elems[i] = <<>> \/ elems[i] = <<".">> THEN cleanRelativeFrom(elems, i + 1, kept)
    ELSE IF elems[i] = <<".", ".">> /\ kept # <<>> /\ kept[Len(kept)] # <<".", ".">>
    THEN cleanRelativeFrom(elems, i + 1, SubSeq(kept, 1, Len(kept) - 1))
    ELSE cleanRelativeFrom(elems, i + 1, Append(kept, elems[i]))

\* path.Clean(p): "." for a path with no element left
Clean(p) ==
    IF p # <<>> /\ p[1] = "/" THEN rootedOrRoot(cleanFrom(Split(p, "/"), 1, <<>>))
    ELSE IF cleanRelativeFrom(Split(p, "/"), 1, <<>>) = <<>> THEN <<".">>
    ELSE Tail(rooted(cleanRelativeFrom(Split(p, "/"), 1, <<>>), 1))

RECURSIVE LastIndexSlash(_, _)
\* strings.LastIndex(p, "/") among the first i characters, counted from 1;
\* 0 if there is none
LastIndexSlash(p, i) ==
    IF i = 0 THEN 0 ELSE IF p[i] = "/" THEN i ELSE LastIndexSlash(p, i - 1)

\* path.Dir(p): the path up to its last slash, cleaned
Dir(p) == Clean(SubSeq(p, 1, LastIndexSlash(p, Len(p))))

\* the Path of the last DeleteObjectInput of DeleteStreamSync
deleteStreamPath(Path) == <<"/">> \o Dir(Path) \o <<"/">>

\* The X-v3io-transaction-verifier header is a sequence of words (names,
\* numbers, "==" and "and"), which stand for the text with blanks between
\* them; a part of it is a sequence of words too.

\* trimAndParseInt(str): strings.TrimSpace, then strconv.Atoi
trimAndParseInt(str) ==
    IF str = <<"1">> THEN [err |-> "nil", n |-> 1]
    ELSE IF str = <<"2">> THEN [err |-> "nil", n |-> 2]
    ELSE [err |-> "atoi", n |-> 0]

\* what parseMtimeHeader returns
MtimeResult(st, secs, nsecs) == [st |-> st, secs |-> secs, nsecs |-> nsecs]

RECURSIVE parseMtimeFrom(_, _, _, _)
\* the loop of parseMtimeHeader over the expressions from the i-th on;
\* mtimeParts[1] of an expression without "==" is out of range
parseMtimeFrom(expressions, i, mtimeSecs, mtimeNSecs) ==
    IF i > Len(expressions) THEN MtimeResult("ok", mtimeSecs, mtimeNSecs)
    ELSE IF Split(expressions[i], "==")[1] \notin {<<"__mtime_secs">>, <<"__mtime_nsecs">>}
    THEN MtimeResult("error", 0, 0)
    ELSE IF Len(Split(expressions[i], "==")) < 2 THEN MtimeResult("panic", 0, 0)
    ELSE IF trimAndParseInt(Split(expressions[i], "==")[2]).err # "nil"
    THEN MtimeResult("error", 0, 0)
    ELSE IF Split(expressions[i], "==")[1] = <<"__mtime_secs">>
    THEN parseMtimeFrom(expressions, i + 1,
                        trimAndParseInt(Split(expressions[i], "==")[2]).n, mtimeNSecs)
    ELSE parseMtimeFrom(expressions, i + 1, mtimeSecs,
                        trimAndParseInt(Split(expressions[i], "==")[2]).n)

\* parseMtimeHeader, on the value of the header
parseMtimeHeaderValue(mtimeHeader) == parseMtimeFrom(Split(mtimeHeader, "and"), 1, 0, 0)

\* The status error message.  A header name is a string of characters; a
\* line of request.String() is the text before a value and the value, which
\* is a word.

ToUpper(ch) ==
    CASE ch = "a" -> "A" [] ch = "e" -> "E" [] ch = "h" -> "H" [] ch = "i" -> "I"
      [] ch = "k" -> "K" [] ch = "n" -> "N" [] ch = "o" -> "O" [] ch = "r" -> "R"
      [] ch = "s" -> "S" [] ch = "t" -> "T" [] ch = "u" -> "U" [] ch = "v" -> "V"
      [] ch = "x" -> "X" [] ch = "y" -> "Y" [] ch = "z" -> "Z"
      [] OTHER -> ch
ToLower(ch) ==
    CASE ch = "A" -> "a" [] ch = "E" -> "e" [] ch = "H" -> "h" [] ch = "I" -> "i"
      [] ch = "K" -> "k" [] ch = "N" -> "n" [] ch = "O" -> "o" [] ch = "R" -> "r"
      [] ch = "S" -> "s" [] ch = "T" -> "t" [] ch = "U" -> "u" [] ch = "V" -> "v"
      [] ch = "X" -> "x" [] ch = "Y" -> "y" [] ch = "Z" -> "z"
      [] OTHER -> ch

RECURSIVE normalizeFrom(_, _, _)
\* the header name as the HTTP library stores it, from character i on: the
\* first letter and every letter after a "-" in upper case, the others in
\* lower case
normalizeFrom(name, i, upper) ==
    IF i > Len(name) THEN <<>>
    ELSE <<IF upper THEN ToUpper(name[i]) ELSE ToLower(name[i])>>
             \o normalizeFrom(name, i + 1, name[i] = "-")

\* request.Header.Set(name, value): the line request.String() has for it
HeaderLineAsGiven(name, value) == [text |-> name \o <<":", " ">>, value |-> value]
HeaderLine(name, value) ==
    [text |-> normalizeFrom(name, 1, TRUE) \o <<":", " ">>, value |-> value]

\* the header names sendRequest sets, and the pattern of its regular expression
AuthorizationHeader == <<"A", "u", "t", "h", "o", "r", "i", "z", "a", "t", "i", "o", "n">>
SessionKeyHeader == <<"X", "-", "v", "3", "i", "o", "-", "s", "e", "s", "s", "i", "o", "n", "-", "k", "e", "y">>
SessionKeyPattern == <<"X", "-", "V", "3", "i", "o", "-", "S", "e", "s", "s", "i", "o", "n", "-", "K", "e", "y", ":">>

\* request.String() up to the body: the request line and the header lines
requestLines(in) ==
    <<[text |-> <<>>, value |-> in.method]>>
        \o (IF in.AuthenticationToken # ""
            THEN <<HeaderLine(AuthorizationHeader, in.AuthenticationToken)>> ELSE <<>>)
        \o (IF in.AccessKey # ""
            THEN <<HeaderLine(SessionKeyHeader, in.AccessKey)>> ELSE <<>>)

\* the string s has the string sub in it
Contains(s, sub) ==
    \E i \in 0..(Len(s) - Len(sub)) : SubSeq(s, i + 1, i + Len(sub)) = sub

\* re.ReplaceAllString(line, "X-V3io-Session-Key: SANITIZED") on one line:
\* the pattern takes the whole line it occurs in
sanitizeLine(line) ==
    IF Contains(line.text, SessionKeyPattern)
    THEN [text |-> SessionKeyPattern \o <<" ">>, value |-> "SANITIZED"]
    ELSE line

\* the message of the status error of sendRequest
statusErrorMessage(in) ==
    [status |-> in.status,
     request |-> [i \in 1..Len(requestLines(in)) |-> sanitizeLine(requestLines(in)[i])]]

\* Typed attributes.  An integer is a sign and the decimal digits of its
\* magnitude (no leading zero, <<0>> for zero); a float64 is a sign, the digits
\* of a decimal significand and a power of ten; a string is a
\* sequence of one-character strings; a byte slice is a sequence of bytes.

\* an attribute value of each kind; the fields a kind has no use for are empty
Value(kind, neg, digits, e, text, bytes) ==
    [kind |-> kind, neg |-> neg, digits |-> digits, e |-> e, text |-> text,
     bytes |-> bytes]
IntValue(kind, neg, digits) == Value(kind, neg, digits, 0, <<>>, <<>>)
FloatValue(neg, digits, e) == Value("float64", neg, digits, e, <<>>, <<>>)
StringValue(text) == Value("string", FALSE, <<>>, 0, text, <<>>)
BytesValue(bytes) == Value("[]byte", FALSE, <<>>, 0, <<>>, bytes)
BoolValue(b) == Value("bool", b, <<>>, 0, <<>>, <<>>)
\* time.Time: Unix() in neg and digits, Nanosecond() in e
TimeValue(neg, digits, nsec) == Value("time.Time", neg, digits, nsec, <<>>, <<>>)
NoValue == Value("", FALSE, <<>>, 0, <<>>, <<>>)

\* the character of a digit
DigitChar(d) ==
    CASE d = 0 -> "0" [] d = 1 -> "1" [] d = 2 -> "2" [] d = 3 -> "3"
      [] d = 4 -> "4" [] d = 5 -> "5" [] d = 6 -> "6" [] d = 7 -> "7"
      [] d = 8 -> "8" [] OTHER -> "9"

\* strconv.FormatInt(value, 10) and strconv.Itoa(value)
FormatInt(neg, digits) ==
    (IF neg THEN <<"-">> ELSE <<>>) \o [i \in 1..Len(digits) |-> DigitChar(digits[i])]

RECURSIVE IntDigits(_)
\* the decimal digits of a natural number of the model
IntDigits(n) == IF n < 10 THEN <<n>> ELSE Append(IntDigits(n \div 10), n % 10)

RECURSIVE DigitsInt(_, _, _)
\* the number of the digits from the i-th on, for digits that make a small number
DigitsInt(digits, i, acc) ==
    IF i > Len(digits) THEN acc ELSE DigitsInt(digits, i + 1, acc * 10 + digits[i])

RECURSIVE StripLeadingZeros(_)
StripLeadingZeros(digits) ==
    IF Len(digits) > 1 /\ digits[1] = 0 THEN StripLeadingZeros(Tail(digits)) ELSE digits

RECURSIVE TrailingZeros(_)
\* how many zeros a number other than zero ends with
TrailingZeros(digits) ==
    IF Len(digits) > 1 /\ digits[Len(digits)] = 0
    THEN 1 + TrailingZeros(SubSeq(digits, 1, Len(digits) - 1))
    ELSE 0

\* a < b and a <= b for two magnitudes
Less(a, b) ==
    \/ Len(a) < Len(b)
    \/ /\ Len(a) = Len(b)
       /\ \E i \in 1..Len(a) : a[i] < b[i] /\ \A j \in 1..(i - 1) : a[j] = b[j]
LessEq(a, b) == a = b \/ Less(a, b)

RECURSIVE AddSmall(_, _)
\* the magnitude plus a small natural number
AddSmall(digits, n) ==
    IF n = 0 THEN digits
    ELSE IF digits = <<>> THEN IntDigits(n)
    ELSE Append(AddSmall(SubSeq(digits, 1, Len(digits) - 1),
                         (digits[Len(digits)] + n) \div 10),
                (digits[Len(digits)] + n) % 10)

RECURSIVE SubSmallFrom(_, _)
\* the magnitude minus a small natural number that is not larger
SubSmallFrom(digits, n) ==
    IF n = 0 THEN digits
    ELSE Append(SubSmallFrom(SubSeq(digits, 1, Len(digits) - 1),
                             (n + 9 - digits[Len(digits)]) \div 10),
                (digits[Len(digits)] + 10 * ((n + 9 - digits[Len(digits)]) \div 10)) - n)
SubSmall(digits, n) == StripLeadingZeros(SubSmallFrom(digits, n))

RECURSIVE ModSmall(_, _, _, _)
\* the magnitude modulo a small number m
ModSmall(digits, m, i, acc) ==
    IF i > Len(digits) THEN acc ELSE ModSmall(digits, m, i + 1, (acc * 10 + digits[i]) % m)

RECURSIVE Double(_, _, _)
\* twice the magnitude, from digit i down, with the carry so far
Double(digits, i, carry) ==
    IF i = 0 THEN (IF carry = 0 THEN <<>> ELSE <<carry>>)
    ELSE Append(Double(digits, i - 1, (2 * digits[i] + carry) \div 10) ,
                (2 * digits[i] + carry) % 10)

\* strconv.ParseInt(s, 10, bits), which strconv.Atoi is for the bits of an int
SignOf(s) == IF s # <<>> /\ s[1] \in {"+", "-"} THEN s[1] ELSE ""
Unsigned(s) == IF SignOf(s) # "" THEN Tail(s) ELSE s
IsDigits(s) == s # <<>> /\ \A i \in 1..Len(s) : DigitValue(s[i]) < 10
Magnitude(s) == StripLeadingZeros([i \in 1..Len(s) |-> DigitValue(s[i])])
MaxMagnitude(bits) ==
    IF bits = 32 THEN <<2, 1, 4, 7, 4, 8, 3, 6, 4, 7>>
    ELSE <<9, 2, 2, 3, 3, 7, 2, 0, 3, 6, 8, 5, 4, 7, 7, 5, 8, 0, 7>>
ParseInt(s, bits) ==
    IF ~IsDigits(Unsigned(s))
    THEN [err |-> "syntax", neg |-> FALSE, digits |-> <<0>>]
    ELSE IF ~LessEq(Magnitude(Unsigned(s)),
                    IF SignOf(s) = "-" THEN AddSmall(MaxMagnitude(bits), 1)
                    ELSE MaxMagnitude(bits))
    THEN [err |-> "range", neg |-> FALSE, digits |-> <<0>>]
    ELSE [err |-> "nil", neg |-> SignOf(s) = "-" /\ Magnitude(Unsigned(s)) # <<0>>,
          digits |-> Magnitude(Unsigned(s))]

\* 2^53: up to it every integer is a float64
TwoTo53 == <<9, 0, 0, 7, 1, 9, 9, 2, 5, 4, 7, 4, 0, 9, 9, 2>>

RECURSIVE Spacing(_, _, _)
\* the distance between the float64 values around the magnitude v, which is
\* sp below the power of two p and doubles with every power of two
Spacing(v, p, sp) ==
    IF LessEq(v, p) THEN sp ELSE Spacing(v, Double(p, Len(p), 0), 2 * sp)

\* the magnitude v rounded to the nearest multiple of sp, to the even one of
\* two that are as near; r is v mod sp and r2 is v mod 2 sp
RoundTo(v, sp, r, r2) ==
    IF 2 * r < sp \/ (2 * r = sp /\ r2 = r) THEN SubSmall(v, r) ELSE AddSmall(v, sp - r)
RoundToFloat(v, sp) == RoundTo(v, sp, ModSmall(v, sp, 1, 0), ModSmall(v, 2 * sp, 1, 0))

\* the float64 of sign neg, significand digits and power of ten e, written
\* without a zero at either end of the digits
CanonicalFloat(neg, digits, e) ==
    IF StripLeadingZeros(digits) = <<0>> THEN FloatValue(neg, <<0>>, 0)
    ELSE FloatValue(neg,
                    SubSeq(StripLeadingZeros(digits), 1,
                           Len(StripLeadingZeros(digits))
                               - TrailingZeros(StripLeadingZeros(digits))),
                    e + TrailingZeros(StripLeadingZeros(digits)))

\* strconv.ParseFloat(s, 64) once s is cut at "E" into m and x, and m at "."
\* into the parts ip: an integer without exponent is rounded to a float64, a
\* decimal with a fraction or an exponent is one already
parseFloatParts(s, ip, x) ==
    IF Len(ip) > 2 \/ ~IsDigits(ip[1]) \/ (Len(ip) = 2 /\ ~IsDigits(ip[2]))
           \/ ~IsDigits(Unsigned(x)) \/ Len(Unsigned(x)) > 3
    THEN [err |-> "syntax", value |-> NoValue]
    ELSE IF Len(ip) = 1 /\ x = <<"0">>
    THEN [err |-> "nil",
          value |-> CanonicalFloat(SignOf(s) = "-",
                             RoundToFloat(Magnitude(ip[1]),
                                          Spacing(Magnitude(ip[1]), TwoTo53, 1)), 0)]
    ELSE [err |-> "nil",
          value |-> CanonicalFloat(SignOf(s) = "-",
                             [i \in 1..Len(ip[1] \o (IF Len(ip) = 2 THEN ip[2] ELSE <<>>)) |->
                                 DigitValue((ip[1] \o (IF Len(ip) = 2 THEN ip[2] ELSE <<>>))[i])],
                             (IF SignOf(x) = "-" THEN -1 ELSE 1)
                                 * DigitsInt(Magnitude(Unsigned(x)), 1, 0)
                                 - (IF Len(ip) = 2 THEN Len(ip[2]) ELSE 0))]
parseFloatCut(s, parts) ==
    IF Len(parts) > 2 THEN [err |-> "syntax", value |-> NoValue]
    ELSE parseFloatParts(s, Split(Unsigned(parts[1]), "."),
                         IF Len(parts) = 2 THEN parts[2] ELSE <<"0">>)
ParseFloat(s) == parseFloatCut(s, Split(s, "E"))

\* strconv.FormatFloat(value, 'E', -1, 64): d.dddE+xx with the shortest
\* digits that give the value back
formatExponent(x) ==
    <<IF x < 0 THEN "-" ELSE "+">>
        \o (IF x > -10 /\ x < 10 THEN <<"0">> ELSE <<>>)
        \o FormatInt(FALSE, IntDigits(IF x < 0 THEN -x ELSE x))
FormatFloat(neg, digits, e) ==
    (IF neg THEN <<"-">> ELSE <<>>)
        \o <<DigitChar(digits[1])>>
        \o (IF Len(digits) > 1 THEN <<".">> \o FormatInt(FALSE, Tail(digits)) ELSE <<>>)
        \o <<"E">> \o formatExponent(e + Len(digits) - 1)

\* base64.StdEncoding
Base64Alphabet ==
    <<"A", "B", "C", "D", "E", "F", "G", "H", "I", "J", "K", "L", "M", "N", "O", "P",
      "Q", "R", "S", "T", "U", "V", "W", "X", "Y", "Z", "a", "b", "c", "d", "e", "f",
      "g", "h", "i", "j", "k", "l", "m", "n", "o", "p", "q", "r", "s", "t", "u", "v",
      "w", "x", "y", "z", "0", "1", "2", "3", "4", "5", "6", "7", "8", "9", "+", "/">>
Base64Char(sextet) == Base64Alphabet[sextet + 1]
Base64Sextet(ch) ==
    IF \E i \in 1..Len(Base64Alphabet) : Base64Alphabet[i] = ch
    THEN (CHOOSE i \in 1..Len(Base64Alphabet) : Base64Alphabet[i] = ch) - 1
    ELSE Len(Base64Alphabet)

RECURSIVE EncodeToString(_, _)
\* base64.StdEncoding.EncodeToString(b), from byte i on
EncodeToString(b, i) ==
    IF i > Len(b) THEN <<>>
    ELSE IF i = Len(b)
    THEN <<Base64Char(b[i] \div 4), Base64Char((b[i] % 4) * 16), "=", "=">>
    ELSE IF i + 1 = Len(b)
    THEN <<Base64Char(b[i] \div 4), Base64Char((b[i] % 4) * 16 + b[i + 1] \div 16),
           Base64Char((b[i + 1] % 16) * 4), "=">>
    ELSE <<Base64Char(b[i] \div 4), Base64Char((b[i] % 4) * 16 + b[i + 1] \div 16),
           Base64Char((b[i + 1] % 16) * 4 + b[i + 2] \div 64), Base64Char(b[i + 2] % 64)>>
             \o EncodeToString(b, i + 3)

\* the string is base64: groups of four characters of the alphabet, the last
\* one or two of the last group may be "="
IsBase64(s) ==
    /\ Len(s) % 4 = 0
    /\ \A i \in 1..Len(s) :
           \/ Base64Sextet(s[i]) < Len(Base64Alphabet)
           \/ s[i] = "=" /\ (i = Len(s) \/ (i = Len(s) - 1 /\ s[Len(s)] = "="))

RECURSIVE decodeFrom(_, _)
\* base64.StdEncoding.DecodeString(s), from character i on
decodeFrom(s, i) ==
    IF i > Len(s) THEN <<>>
    ELSE IF s[i + 2] = "="
    THEN <<Base64Sextet(s[i]) * 4 + Base64Sextet(s[i + 1]) \div 16>>
    ELSE IF s[i + 3] = "="
    THEN <<Base64Sextet(s[i]) * 4 + Base64Sextet(s[i + 1]) \div 16,
           (Base64Sextet(s[i + 1]) % 16) * 16 + Base64Sextet(s[i + 2]) \div 4>>
    ELSE <<Base64Sextet(s[i]) * 4 + Base64Sextet(s[i + 1]) \div 16,
           (Base64Sextet(s[i + 1]) % 16) * 16 + Base64Sextet(s[i + 2]) \div 4,
           (Base64Sextet(s[i + 2]) % 4) * 64 + Base64Sextet(s[i + 3])>>
             \o decodeFrom(s, i + 4)
DecodeString(s) ==
    IF IsBase64(s) THEN [err |-> "nil", bytes |-> decodeFrom(s, 1)]
    ELSE [err |-> "base64", bytes |-> <<>>]

\* a typed attribute: its type name and its value, a string or a bool
Typed(type, str, b) == [type |-> type, str |-> str, b |-> b]

\* the kinds encodeTypedAttributes has a case for
EncodedKinds ==
    {"int", "uint64", "int64", "float64", "string", "[]byte", "bool", "time.Time"}

\* the cases of the type switch of encodeTypedAttributes
encodeValue(v) ==
    CASE v.kind \in {"int", "uint64", "int64"} -> Typed("N", FormatInt(v.neg, v.digits), FALSE)
      [] v.kind = "float64" -> Typed("N", FormatFloat(v.neg, v.digits, v.e), FALSE)
      [] v.kind = "string" -> Typed("S", v.text, FALSE)
      [] v.kind = "[]byte" -> Typed("B", EncodeToString(v.bytes, 1), FALSE)
      [] v.kind = "bool" -> Typed("BOOL", <<>>, v.neg)
      [] OTHER -> Typed("TS", FormatInt(v.neg, v.digits) \o <<":">>
                                  \o FormatInt(FALSE, IntDigits(v.e)), FALSE)

encodeTypedAttributes(attributes) ==
    IF \E name \in DOMAIN attributes : attributes[name].kind \notin EncodedKinds
    THEN [err |-> "type", typed |-> <<>>]
    ELSE [err |-> "nil",
          typed |-> [name \in DOMAIN attributes |-> encodeValue(attributes[name])]]

\* "N" once strconv.Atoi has given i: an int, or else what ParseFloat gives
decodeNumber(str, i) ==
    IF i.err = "nil" THEN [err |-> "nil", value |-> IntValue("int", i.neg, i.digits)]
    ELSE ParseFloat(str)

\* "B" once DecodeString has given d
decodeBytes(d) ==
    IF d.err # "nil" THEN [err |-> d.err, value |-> NoValue]
    ELSE [err |-> "nil", value |-> BytesValue(d.bytes)]

\* "TS" once the string is cut at ":" into timeParts, and time.Unix for
\* nanoseconds below a second
decodeTimeParts(seconds, nanos) ==
    IF seconds.err # "nil" \/ nanos.err # "nil" \/ Len(nanos.digits) > 9 \/ nanos.neg
    THEN [err |-> "timestamp", value |-> NoValue]
    ELSE [err |-> "nil",
          value |-> TimeValue(seconds.neg, seconds.digits, DigitsInt(nanos.digits, 1, 0))]
decodeTime(timeParts) ==
    IF Len(timeParts) # 2 THEN [err |-> "timestamp", value |-> NoValue]
    ELSE decodeTimeParts(ParseInt(timeParts[1], 64), ParseInt(timeParts[2], 64))

\* the branches of decodeTypedAttributes for one attribute, on a build whose
\* int has intBits bits; an attribute of no known type is left out, which
\* NoValue stands for
decodeValue(t, intBits) ==
    CASE t.type = "N" -> decodeNumber(t.str, ParseInt(t.str, intBits))
      [] t.type = "S" -> [err |-> "nil", value |-> StringValue(t.str)]
      [] t.type = "B" -> decodeBytes(DecodeString(t.str))
      [] t.type = "BOOL" -> [err |-> "nil", value |-> BoolValue(t.b)]
      [] t.type = "TS" -> decodeTime(Split(t.str, ":"))
      [] OTHER -> [err |-> "nil", value |-> NoValue]

decodeTypedAttributes(typed, intBits) ==
    IF \E name \in DOMAIN typed : decodeValue(typed[name], intBits).err # "nil"
    THEN [err |-> "decode", attributes |-> <<>>]
    ELSE [err |-> "nil",
          attributes |-> [name \in DOMAIN typed |-> decodeValue(typed[name], intBits).value]]

\* decodeTypedAttributes(encodeTypedAttributes(attributes)), what e is
decodeEncoded(e, intBits) ==
    IF e.err # "nil" THEN [err |-> e.err, attributes |-> <<>>]
    ELSE decodeTypedAttributes(e.typed, intBits)

\* getItemsParseCAPNPResponse: accumulatedPreviousSectionsLength of each
\* value section, the length of the sections up to and including it
RECURSIVE accumulatedLengths(_, _, _)
accumulatedLengths(lengths, i, accLength) ==
    IF i > Len(lengths) THEN <<>>
    ELSE <<accLength + lengths[i]>>
             \o accumulatedLengths(lengths, i + 1, accLength + lengths[i])

\* the loop of getSectionAndIndex with the previous section's own total
\* subtracted from the index
RECURSIVE sectionFromOwnLength(_, _, _)
sectionFromOwnLength(values, idx, i) ==
    IF i >= Len(values) THEN <<0, idx>>
    ELSE IF values[i + 1] > idx THEN <<i, idx - (values[i] - (IF i > 1 THEN values[i - 1] ELSE 0))>>
    ELSE sectionFromOwnLength(values, idx, i + 1)

\* the loop of getSectionAndIndex from section i (counted from 0) on
RECURSIVE sectionFrom(_, _, _)
sectionFrom(values, idx, i) ==
    IF i >= Len(values) THEN <<0, idx>>
    ELSE IF values[i + 1] > idx THEN <<i, idx - values[i]>>
    ELSE sectionFrom(values, idx, i + 1)

\* getSectionAndIndex over the accumulated lengths of the sections; the
\* result is <<section, resIdx>>, both counted from 0
getSectionAndIndex(values, idx) ==
    IF Len(values) = 1 THEN <<0, idx>>
    ELSE IF idx < values[1] THEN <<0, idx>>
    ELSE sectionFrom(values, idx, 1)

\* ------------------------------------------------------------------ inputs

SyncOps ==
    {"GetContainers", "GetClusterMD", "GetContainerContents", "GetItem",
     "GetItems", "PutItem", "PutItems", "UpdateItem", "GetObject", "PutObject",
     "UpdateObject", "DeleteObject", "CreateStream", "DescribeStream",
     "CheckPathExists", "DeleteStream", "SeekShard", "PutRecords", "PutChunk",
     "GetRecords", "PutOOSObject"}

\* the operations with an asynchronous method (UpdateObject has none)
AsyncOps == SyncOps \ {"UpdateObject"}

NoInput ==
    [op |-> "", dpi |-> DPI("", TRUE, FALSE, 0), items |-> <<>>, form |-> "",
     enc |-> TRUE, mode |-> ""]

Input(op, dpi, items, form, enc) ==
    [op |-> op, dpi |-> dpi, items |-> items, form |-> form, enc |-> enc, mode |-> ""]

\* the values of UpdateMode: none, and one of the modes of the service
UpdateModes == {"", "OnlyIfExists"}

AllDPIs ==
    {DPI(cn, u, inc, to) :
        cn \in {"", "c"}, u \in BOOLEAN, inc \in BOOLEAN, to \in {0, 1}}

\* Items maps of up to MaxItems entries, in the order the range loop visits them
ItemLists ==
    UNION {{[i \in 1..n |-> [key |-> i, enc |-> f[i]]] : f \in [1..n -> BOOLEAN]} :
               n \in 0..MaxItems}

\* the inputs of operation op over the DataPlaneInputs dpis
InputsOf(op, dpis) ==
    IF op = "PutItems"
    THEN {Input(op, d, il, "", TRUE) : d \in dpis, il \in ItemLists}
    ELSE IF op = "PutItem"
    THEN {Input(op, d, <<>>, "", e) : d \in dpis, e \in BOOLEAN}
    ELSE IF op = "UpdateItem"
    THEN {[Input(op, d, <<>>, f, e) EXCEPT !.mode = m] :
              d \in dpis, f \in {"attrs", "expr", "both", "none"}, e \in BOOLEAN,
              m \in UpdateModes}
    ELSE {Input(op, d, <<>>, "", TRUE) : d \in dpis}

\* The scenarios.  "single": one operation, every input.  "retry": one
\* operation, with the server closing the connection up to RetryAttempts + 1
\* times.  "concurrent": MaxRequests operations of two kinds, one the worker
\* has a case for and one it has none for.  "cancel": one operation
\* whose Ctx may be cancelled before the call.  "close": MaxRequests
\* operations, with the request queues being closed at any time.  "live":
\* MaxRequests operations, one of which reads a header of the response.
ConcurrentOps == {"GetObject", "PutOOSObject"}
ConcurrentDPIs == {DPI("c", TRUE, FALSE, 0)}
RetryOps == {"GetObject", "PutObject"}
RetryDPIs == {DPI("c", TRUE, inc, to) : inc \in BOOLEAN, to \in {0, 1}}
CancelOps == {"GetObject"}
CloseOps == {"PutOOSObject"}
LiveOps == {"GetObject", "PutItem"}
CancelDPIs == {DPI("c", TRUE, FALSE, 0), WithCancelledCtx(DPI("c", TRUE, FALSE, 0))}

Inputs(scn) ==
    IF scn = "single" THEN UNION {InputsOf(op, AllDPIs) : op \in SyncOps}
    ELSE IF scn = "retry" THEN UNION {InputsOf(op, RetryDPIs) : op \in RetryOps}
    ELSE IF scn = "cancel" THEN UNION {InputsOf(op, CancelDPIs) : op \in CancelOps}
    ELSE IF scn = "close" THEN UNION {InputsOf(op, ConcurrentDPIs) : op \in CloseOps}
    ELSE IF scn = "live" THEN UNION {InputsOf(op, ConcurrentDPIs) : op \in LiveOps}
    ELSE UNION {InputsOf(op, ConcurrentDPIs) : op \in ConcurrentOps}

\* the FileMode strings: the ones the comments of the types give, the
\* largest 32-bit values and the first beyond them in both bases, and every
\* short string over a few characters
ModeChars == {"0", "1", "7", "8", "x"}
ModeExamples ==
    {<<"0", "1", "0", "0", "6", "6", "4">>, <<"3", "3", "2", "0", "4">>,
     <<"0", "4", "0", "7", "7", "5">>,
     <<"0", "3", "7", "7", "7", "7", "7", "7", "7", "7", "7", "7">>,
     <<"0", "4", "0", "0", "0", "0", "0", "0", "0", "0", "0", "0">>,
     <<"4", "2", "9", "4", "9", "6", "7", "2", "9", "5">>,
     <<"4", "2", "9", "4", "9", "6", "7", "2", "9", "6">>}
ModeInputs == ModeExamples \cup Strings(ModeChars, MaxModeLen)

\* the inputs of buildRequestURI: the cluster URL https://h/ and one that
\* does not parse, a container name (sendRequest has rejected the empty one),
\* and paths and queries over a few characters
URLs == {[ok |-> TRUE, host |-> "https://h"], [ok |-> FALSE, host |-> ""]}
ContainerNames == {<<"c">>}
PathChars == {"/", "a", "."}
Paths == {<<"/", "a", "/", "/", "b", "/">>} \cup Strings(PathChars, MaxPathLen)
QueryChars == {"k", " "}
Queries == {<<"k", "=", "v">>} \cup Strings(QueryChars, MaxQueryLen)
URIInputs ==
    {[url |-> u, container |-> c, query |-> q, path |-> p] :
        u \in URLs, c \in ContainerNames, q \in Queries, p \in Paths}

\* the calls of DeleteStreamSync, by container and stream path
DeleteStreamInputs == {[container |-> c, path |-> p] : c \in ContainerNames, p \in Paths}

\* the transaction-verifier headers: the one of the comment of
\* parseMtimeHeader, variations of it, and every short sequence of words
HeaderWords == {"__mtime_secs", "__mtime_nsecs", "foo", "==", "and", "1", "2", "x"}
HeaderExamples ==
    {<<"__mtime_secs", "==", "1", "and", "__mtime_nsecs", "==", "2">>,
     <<"__mtime_nsecs", "==", "2", "and", "__mtime_secs", "==", "1">>,
     <<"__mtime_secs", "==", "1", "and", "__mtime_nsecs", "==", "x">>,
     <<"__mtime_secs", "==", "1", "and", "__mtime_nsecs">>,
     <<"__mtime_secs", "==", "1", "and", "foo", "==", "2">>,
     <<"__mtime_secs", "==", "1", "and">>}
Headers == HeaderExamples \cup Strings(HeaderWords, MaxHeaderLen)

\* pairs of requests that got a non-2xx status and differ in AccessKey at most
AccessKeys == {"", "secret1", "secret2"}
RequestPairs ==
    {[a |-> [method |-> m, status |-> st, AuthenticationToken |-> tok, AccessKey |-> k1],
      b |-> [method |-> m, status |-> st, AuthenticationToken |-> tok, AccessKey |-> k2]] :
        m \in {"GET", "PUT"}, st \in {404, 500}, tok \in {"", "token"},
        k1 \in AccessKeys, k2 \in AccessKeys}

\* the attribute values: integers around the ends of the 32-bit range, of the
\* range of integers a float64 holds and of the 64-bit range, floats, strings,
\* byte slices, booleans and times
Magnitudes ==
    {<<0>>, <<1>>, <<3, 0>>,
     <<2, 1, 4, 7, 4, 8, 3, 6, 4, 7>>, <<2, 1, 4, 7, 4, 8, 3, 6, 4, 8>>,
     <<9, 0, 0, 7, 1, 9, 9, 2, 5, 4, 7, 4, 0, 9, 9, 2>>,
     <<9, 0, 0, 7, 1, 9, 9, 2, 5, 4, 7, 4, 0, 9, 9, 3>>,
     <<9, 2, 2, 3, 3, 7, 2, 0, 3, 6, 8, 5, 4, 7, 7, 5, 8, 0, 7>>}
Int64Values ==
    {IntValue("int64", FALSE, d) : d \in Magnitudes}
        \cup {IntValue("int64", TRUE, d) : d \in Magnitudes \ {<<0>>}}
        \cup {IntValue("int64", TRUE, <<9, 2, 2, 3, 3, 7, 2, 0, 3, 6, 8, 5, 4, 7, 7, 5, 8, 0, 8>>)}
IntValues == {IntValue("int", FALSE, <<0>>), IntValue("int", TRUE, <<1>>),
              IntValue("int", FALSE, <<3, 0>>)}
FloatValues ==
    {FloatValue(FALSE, <<0>>, 0), FloatValue(FALSE, <<3>>, 1), FloatValue(TRUE, <<1, 5>>, -1),
     FloatValue(FALSE, <<2, 5>>, -4), FloatValue(FALSE, <<1>>, 100),
     FloatValue(FALSE, <<9, 2, 2, 3, 3, 7, 2, 0, 3, 6, 8, 5, 4, 7, 7, 6>>, 3)}
StringValues == {StringValue(<<>>), StringValue(<<"f", "o", "o">>), StringValue(<<"3", "0">>)}
ByteValues == {0, 255}
BytesValues == {BytesValue(b) : b \in Strings(ByteValues, MaxBytesLen)}
TimeValues ==
    {TimeValue(FALSE, <<0>>, 0), TimeValue(FALSE, <<1>>, 2), TimeValue(TRUE, <<1>>, 999999999),
     TimeValue(FALSE, <<1, 5, 8, 1, 6, 0, 5, 1, 0, 0>>, 498349956)}
AttributeValues ==
    Int64Values \cup IntValues \cup FloatValues \cup StringValues \cup BytesValues
        \cup {BoolValue(b) : b \in BOOLEAN} \cup TimeValues

\* the attribute maps of up to two attributes, and the bits an int of the
\* build has
AttributeMaps == UNION {[names -> AttributeValues] : names \in {{}, {"a"}, {"a", "b"}}}
IntSizes == {32, 64}

\* the calls of sendRequest: every DataPlaneInput, both values of
\* releaseResponse, and a transport that answers at once or after it closed
\* the connection once, with an error or with a status around the 2xx range
SendStatusCodes == {199, 200, 204, 299, 300, 404, 500}
SendResults ==
    {[err |-> "other", status |-> 0, body |-> "none", n |-> 0]}
        \cup {[err |-> "nil", status |-> st, body |-> "ok", n |-> 0] : st \in SendStatusCodes}
SendTransports ==
    {<<o>> : o \in SendResults}
        \cup {<<[err |-> "closed", status |-> 0, body |-> "none", n |-> 0], o>> :
                  o \in SendResults}
SendInputs ==
    {[dpi |-> d, releaseResponse |-> rel, srv |-> srv] :
        d \in AllDPIs, rel \in BOOLEAN, srv \in SendTransports}

\* the value sections of a response, each by its length, and a value index
\* up to one past the last value
SectionLengths == UNION {[1..n -> 0..MaxSectionLen] : n \in 1..MaxSections}
SectionInputs ==
    {[lengths |-> l, idx |-> i] : l \in SectionLengths, i \in 0..(MaxSections * MaxSectionLen)}

\* the opaque context values a caller passes with a request
UserContexts == {"u1", "u2"}

\* ------------------------------------------------------------- the server

StatusCodes == {200, 404}

Bodies(parse) ==
    IF parse \in {"json", "xml", "items"} THEN {"ok", "bad"}
    ELSE IF parse = "item" THEN {"ok", "bad", "badattr"}
    ELSE IF parse = "mtime" THEN {"ok", "bad", "short"}
    ELSE {"ok"}

\* what a transport call for request req can return: a transport error, or a
\* response with a status and, when 2xx, a body of one of the shapes the
\* calling operation distinguishes
ServerResults(req) ==
    {[err |-> e, status |-> 0, body |-> "none", n |-> 0] : e \in {"closed", "other"}}
    \cup {[err |-> "nil", status |-> st, body |-> "none", n |-> 0] :
              st \in StatusCodes \ {200}}
    \cup (IF req.parse = "list"
          THEN {[err |-> "nil", status |-> 200, body |-> "ok", n |-> n] :
                    n \in 0..MaxChildren}
               \cup {[err |-> "nil", status |-> 200, body |-> "bad", n |-> 0]}
          ELSE {[err |-> "nil", status |-> 200, body |-> b, n |-> 0] :
                    b \in Bodies(req.parse)})

\* --------------------------------------------------------- consumer group

\* The consumer-group coordinator, as the specification describes it.  The
\* persisted state is [mtime, members, shardAssignments]: the modification
\* time of the item (counted in writes), the IDs of the members, and the
\* assignments [shardID, memberID].  The lastHeartbeat of a member is kept as
\* what the coordinator asks of it: whether it is older than the session
\* timeout (the member is then in the set stale).
Members == 1..NumMembers
Shards == 0..(NumShards - 1)

NoState == [mtime |-> 0, members |-> {}, shardAssignments |-> {}]

\* the k-th of the member IDs ids in their order, counted from 0
Nth(ids, k) == CHOOSE id \in ids : Cardinality({j \in ids : j < id}) = k

\* the rebalance function: shard s goes to the live member at position
\* s modulo the number of live members
Rebalance(live) ==
    IF live = {} THEN {}
    ELSE {[shardID |-> s, memberID |-> Nth(live, s % Cardinality(live))] : s \in Shards}

\* the state document after member m's modification op of the document
\* state: join, heartbeat, leave and seizure
Modify(op, m, state, stale) ==
    IF op = "join"
    THEN [state EXCEPT !.members = @ \cup {m},
                       !.shardAssignments = Rebalance((state.members \cup {m}) \ stale)]
    ELSE IF op = "leave"
    THEN [state EXCEPT !.members = @ \ {m},
                       !.shardAssignments = Rebalance((state.members \ {m}) \ stale)]
    ELSE IF op = "seizure"
    THEN [state EXCEPT !.members = @ \ stale,
                       !.shardAssignments = Rebalance(state.members \ stale)]
    ELSE state

\* the shards the document state assigns to member m
Owned(state, m) == {a.shardID : a \in {b \in state.shardAssignments : b.memberID = m}}

\* the retry policy never gives up
ExhaustedNever(attempts) == FALSE
\* the attempts of a modification are exhausted
Exhausted(attempts) == attempts >= ModifyAttempts

\* a member: what it does (pc), the modification it is making, the document
\* it read for it, the compare-and-swaps of it that failed, its claim tasks
\* by shard, and the claim tasks torn down after a fatal error
NoMember ==
    [pc |-> "out", op |-> "", snapshot |-> NoState, attempts |-> 0, claims |-> {},
     torn |-> {}]

NewGroup == [state |-> NoState, member |-> [m \in Members |-> NoMember], stale |-> {}]

\* ------------------------------------------------------------------- state

VARIABLES
    scenario,     \* which inputs the application uses
    opsLeft,      \* operations the application may still start
    closedLeft,   \* times the server may still close the connection
    requestID,    \* var requestID uint64
    requestChan,  \* context.requestChan, per context
    permits,      \* free permits of context.connSemaphore, per context
    threads,      \* per thread: where it stands, what it works on, and the
                  \* result r of its function on the transport results so far
    respChan,     \* the response channel of each caller
    submitted,    \* history: the requests built by sendRequestToWorker
    sent,         \* history: the responses workers sent, with their requests
    crashed,      \* a goroutine panicked: the process is gone
    chanClosed,   \* per context: requestChan has been closed
    pure,         \* a call of one of the package's pure functions: [f, in, done, out]
    group         \* a consumer group: [state, member, stale]

vars ==
    <<scenario, opsLeft, closedLeft, requestID, requestChan, permits, threads,
      respChan, submitted, sent, crashed, chanClosed, pure, group>>

\* NewContext: context 1 is created with MaxConns = MaxConns, the others with
\* MaxConns = 0 (connSemaphore stays nil)
maxConns(c) == IF c = 1 THEN MaxConns ELSE 0

NoRequest == [ID |-> 0, Input |-> NoInput, Context |-> "", ResponseChan |-> 0]

NoResult == Return(0, NilErr, <<>>, 0, NoHTTP)

\* no pure function is being called
NoPure == [f |-> "", in |-> <<>>, done |-> TRUE, out |-> <<>>]

Idle ==
    [pc |-> "idle", ctx |-> 0, in |-> NoInput, srv |-> <<>>, req |-> NoRequest,
     r |-> NoResult]

\* the function thread t runs, on the transport results it has got so far
Run(t, in, srv) == IF IsWorker(t) THEN workerSwitch(in, srv) ELSE SyncCall(in, srv)
Exec(t) == threads[t].r

\* the state after construction, but for the pure function called
InitProgram(scn, ops, closed) ==
    /\ scenario = scn
    /\ opsLeft = ops
    /\ closedLeft = closed
    /\ requestID = 0
    /\ requestChan = [c \in Contexts |-> <<>>]
    /\ permits = [c \in Contexts |-> maxConns(c)]
    /\ threads = [t \in Threads |-> IF IsWorker(t) THEN [Idle EXCEPT !.ctx = t[2]] ELSE Idle]
    /\ respChan = [k \in 1..NumCallers |-> <<>>]
    /\ submitted = <<>>
    /\ sent = <<>>
    /\ crashed = FALSE
    /\ chanClosed = [c \in Contexts |-> FALSE]
    /\ group = NewGroup

InitWith(scn, ops, closed) == InitProgram(scn, ops, closed) /\ pure = NoPure

\* a call of the pure function f with input in that has not run yet
PureCall(f, in) == [f |-> f, in |-> in, done |-> FALSE, out |-> <<>>]

\* the process calls one of the pure functions, on any input
InitPure ==
    /\ \/ \E s \in ModeInputs : pure = PureCall("mode", s)
       \/ \E i \in URIInputs : pure = PureCall("buildRequestURI", i)
       \/ \E h \in Headers : pure = PureCall("parseMtimeHeader", h)
       \/ \E rp \in RequestPairs : pure = PureCall("statusError", rp)
       \/ \E i \in SendInputs : pure = PureCall("sendRequest", i)
       \/ \E m \in AttributeMaps, bits \in IntSizes :
              pure = PureCall("roundTrip", [attributes |-> m, intBits |-> bits])
       \/ \E i \in SectionInputs : pure = PureCall("getSectionAndIndex", i)
       \/ \E i \in DeleteStreamInputs : pure = PureCall("deleteStream", i)
    /\ InitProgram("pure", 0, 0)

Init == InitWith("concurrent", MaxRequests, 1)
InitSingle == InitWith("single", 1, 1)
InitRetry == InitWith("retry", 1, RetryAttempts + 1)
InitCancel == InitWith("cancel", 1, 1)
InitClose == InitWith("close", MaxRequests, 1)
InitLive == InitWith("live", MaxRequests, 1)

\* ----------------------------------------------------------------- actions

\* where a thread stands once it has started, or resumed, its function
pcOf(r) ==
    IF r.st = "call" THEN (IF r.attempt = 0 THEN "ready" ELSE "holding")
    ELSE IF r.st = "ret" THEN "done"
    ELSE "panic"

\* a thread that starts operation in for request on context c, and has run to r
Started(c, in, request, r) ==
    [pc |-> pcOf(r), ctx |-> c, in |-> in, srv |-> <<>>, req |-> request, r |-> r]

\* an application thread may start an operation
CanStart(t) == ~crashed /\ opsLeft > 0 /\ threads[t].pc \in {"idle", "done"}

\* an application thread calls <Op>Sync(in) on context c
CallSync(t, in, c) ==
    /\ CanStart(t)
    /\ opsLeft' = opsLeft - 1
    /\ threads' = [threads EXCEPT ![t] = Started(c, in, NoRequest, Run(t, in, <<>>))]
    /\ UNCHANGED <<group, pure, chanClosed, scenario, closedLeft, requestID, requestChan, permits, respChan,
                   submitted, sent, crashed>>

\* id := atomic.AddUint64(&requestID, 1)
NextRequestIDNoIncrement(v) == v
NextRequestID(v) == v + 1

\* sendRequestToWorker up to the send on requestChan: the request is built
Submit(t, in, uctx, c) ==
    /\ CanStart(t)
    /\ opsLeft' = opsLeft - 1
    /\ requestID' = NextRequestID(requestID)
    /\ LET request == [ID |-> requestID', Input |-> in, Context |-> uctx,
                       ResponseChan |-> t[3]]
       IN  /\ threads' = [threads EXCEPT ![t] =
                  [pc |-> "sending", ctx |-> c, in |-> NoInput, srv |-> <<>>,
                   req |-> request, r |-> NoResult]]
           /\ submitted' = Append(submitted, [req |-> request, ctx |-> c, by |-> t])
    /\ UNCHANGED <<group, pure, chanClosed, scenario, closedLeft, requestChan, permits, respChan, sent, crashed>>

\* c.requestChan <- &requestResponse.Request, which blocks while the queue is full
Enqueue(t) ==
    /\ ~crashed
    /\ threads[t].pc = "sending"
    /\ ~chanClosed[threads[t].ctx]
    /\ Len(requestChan[threads[t].ctx]) < RequestChanLen
    /\ requestChan' = [requestChan EXCEPT ![threads[t].ctx] = Append(@, threads[t].req)]
    /\ threads' = [threads EXCEPT ![t] = Idle]
    /\ UNCHANGED <<group, pure, chanClosed, scenario, opsLeft, closedLeft, requestID, permits, respChan,
                   submitted, sent, crashed>>

\* the position in a buffered channel a receive takes its value from
RecvIndexNewest(q) == Len(q)
RecvIndex(q) == 1

\* channel buffer q without the value at position i
Without(q, i) == SubSeq(q, 1, i - 1) \o SubSeq(q, i + 1, Len(q))

\* request := <-c.requestChan, and the type switch up to its first blocking point
Dequeue(w) ==
    /\ ~crashed
    /\ threads[w].pc = "idle"
    /\ requestChan[w[2]] # <<>>
    /\ threads' = [threads EXCEPT ![w] =
           Started(w[2], requestChan[w[2]][RecvIndex(requestChan[w[2]])].Input,
                   requestChan[w[2]][RecvIndex(requestChan[w[2]])],
                   Run(w, requestChan[w[2]][RecvIndex(requestChan[w[2]])].Input, <<>>))]
    /\ requestChan' = [requestChan EXCEPT ![w[2]] = Without(@, RecvIndex(@))]
    /\ UNCHANGED <<group, pure, chanClosed, scenario, opsLeft, closedLeft, requestID, permits, respChan,
                   submitted, sent, crashed>>

\* c.connSemaphore.Acquire(goctx.TODO(), 1): waits for a free permit
CanAcquireAlways(c) == TRUE
CanAcquire(c) == permits[c] > 0

\* if c.connSemaphore != nil { Acquire }
Acquire(t) ==
    /\ ~crashed
    /\ threads[t].pc = "ready"
    /\ IF maxConns(threads[t].ctx) > 0
       THEN /\ CanAcquire(threads[t].ctx)
            /\ permits' = [permits EXCEPT ![threads[t].ctx] = @ - 1]
       ELSE UNCHANGED permits
    /\ threads' = [threads EXCEPT ![t].pc = "holding"]
    /\ UNCHANGED <<group, pure, chanClosed, scenario, opsLeft, closedLeft, requestID, requestChan, respChan,
                   submitted, sent, crashed>>

\* the thread enters c.httpClient.Do / DoTimeout
Do(t) ==
    /\ ~crashed
    /\ threads[t].pc = "holding"
    /\ threads' = [threads EXCEPT ![t].pc = "inDo"]
    /\ UNCHANGED <<group, pure, chanClosed, scenario, opsLeft, closedLeft, requestID, requestChan, permits,
                   respChan, submitted, sent, crashed>>

\* c.connSemaphore.Release(1), which follows the retry loop whatever it left in err
PermitsAfterLoopIfNoError(p, o) == IF o.err = "nil" THEN p + 1 ELSE p
PermitsAfterLoop(p, o) == p + 1

\* the transport call returns o; the thread runs on to its next blocking point:
\* the next attempt, the next request of the operation, or the function's return
Resume(t, o, r) ==
    /\ threads' = [threads EXCEPT ![t].srv = Append(@, o), ![t].pc = pcOf(r), ![t].r = r]
    /\ permits' = IF pcOf(r) # "holding" /\ maxConns(threads[t].ctx) > 0
                  THEN [permits EXCEPT ![threads[t].ctx] = PermitsAfterLoop(@, o)]
                  ELSE permits
    /\ crashed' = (r.st = "panic")

DoReturn(t, o) ==
    /\ ~crashed
    /\ threads[t].pc = "inDo"
    /\ o \in ServerResults(Exec(t).req)
    /\ IF o.err = "closed"
       THEN closedLeft > 0 /\ closedLeft' = closedLeft - 1
       ELSE UNCHANGED closedLeft
    /\ Resume(t, o, Run(t, threads[t].in, Append(threads[t].srv, o)))
    /\ UNCHANGED <<group, pure, chanClosed, scenario, opsLeft, requestID, requestChan, respChan, submitted, sent>>

\* workerEntry after the switch: the response slot of the request is filled
StampResponseNoError(request, r) ==
    [ID |-> request.ID, Error |-> NilErr, Context |-> request.Context,
     resp |-> r.resp, out |-> IF r.resp # 0 THEN r.out ELSE NoOut]
StampResponse(request, r) ==
    [ID |-> request.ID, Error |-> r.err, Context |-> request.Context,
     resp |-> r.resp, out |-> IF r.resp # 0 THEN r.out ELSE NoOut]

\* request.ResponseChan <- &request.RequestResponse.Response, which blocks
\* while the caller's channel is full
Deliver(w) ==
    /\ ~crashed
    /\ IsWorker(w)
    /\ threads[w].pc = "done"
    /\ LET request == threads[w].req
           response == StampResponse(request, Exec(w))
       IN  /\ Len(respChan[request.ResponseChan]) < ResponseChanLen
           /\ respChan' = [respChan EXCEPT ![request.ResponseChan] = Append(@, response)]
           /\ sent' = Append(sent, [req |-> request, srv |-> threads[w].srv,
                                    resp |-> response, chan |-> request.ResponseChan,
                                    ctx |-> w[2]])
    /\ threads' = [threads EXCEPT ![w] = [Idle EXCEPT !.ctx = w[2]]]
    /\ UNCHANGED <<group, pure, chanClosed, scenario, opsLeft, closedLeft, requestID, requestChan, permits,
                   submitted, crashed>>

\* the application takes a response from its channel
Receive(k) ==
    /\ ~crashed
    /\ respChan[k] # <<>>
    /\ respChan' = [respChan EXCEPT ![k] = Tail(@)]
    /\ UNCHANGED <<group, pure, chanClosed, scenario, opsLeft, closedLeft, requestID, requestChan, permits,
                   threads, submitted, sent, crashed>>

Next ==
    \/ \E t \in Callers :
           /\ CanStart(t)
           /\ \E in \in Inputs(scenario), c \in Contexts : CallSync(t, in, c)
    \/ \E t \in Callers :
           /\ CanStart(t)
           /\ \E in \in Inputs(scenario), u \in UserContexts, c \in Contexts :
                  in.op \in AsyncOps /\ Submit(t, in, u, c)
    \/ \E t \in Callers : Enqueue(t)
    \/ \E w \in Workers : Dequeue(w)
    \/ \E t \in Threads : Acquire(t)
    \/ \E t \in Threads : Do(t)
    \/ \E t \in Threads :
           /\ threads[t].pc = "inDo"
           /\ \E o \in ServerResults(Exec(t).req) : DoReturn(t, o)
    \/ \E w \in Workers : Deliver(w)
    \/ \E k \in 1..NumCallers : Receive(k)

\* The request queue of context c is closed.  Nothing in the package closes
\* it; the step is the shutdown signal the specification describes.
CloseRequestChan(c) ==
    /\ ~crashed
    /\ ~chanClosed[c]
    /\ chanClosed' = [chanClosed EXCEPT ![c] = TRUE]
    /\ UNCHANGED <<group, pure, scenario, opsLeft, closedLeft, requestID, requestChan,
                   permits, threads, respChan, submitted, sent, crashed>>

\* c.requestChan <- &requestResponse.Request on a closed channel panics
EnqueueClosed(t) ==
    /\ ~crashed
    /\ threads[t].pc = "sending"
    /\ chanClosed[threads[t].ctx]
    /\ threads' = [threads EXCEPT ![t].pc = "panic"]
    /\ crashed' = TRUE
    /\ UNCHANGED <<group, pure, chanClosed, scenario, opsLeft, closedLeft, requestID,
                   requestChan, permits, respChan, submitted, sent>>

\* request := <-c.requestChan on a closed and drained channel yields nil at
\* once, and request.Input in the switch dereferences it
DequeueClosed(w) ==
    /\ ~crashed
    /\ threads[w].pc = "idle"
    /\ chanClosed[w[2]]
    /\ requestChan[w[2]] = <<>>
    /\ threads' = [threads EXCEPT ![w].pc = "panic"]
    /\ crashed' = TRUE
    /\ UNCHANGED <<group, pure, chanClosed, scenario, opsLeft, closedLeft, requestID,
                   requestChan, permits, respChan, submitted, sent>>

NextClose ==
    \/ Next
    \/ \E c \in Contexts : CloseRequestChan(c)
    \/ \E t \in Callers : EnqueueClosed(t)
    \/ \E w \in Workers : DequeueClosed(w)

Spec == Init /\ [][Next]_vars
SpecSingle == InitSingle /\ [][Next]_vars
SpecRetry == InitRetry /\ [][Next]_vars
SpecCancel == InitCancel /\ [][Next]_vars
SpecClose == InitClose /\ [][NextClose]_vars

\* the variables the pure functions leave alone
\* The scheduling the program runs under: a goroutine that can take its next
\* step takes it (the Go scheduler starves no runnable goroutine), every
\* transport call returns, and the application takes the responses it is
\* sent.  No application thread is bound to start another operation.
TransportReturns(t) ==
    /\ threads[t].pc = "inDo"
    /\ \E o \in ServerResults(Exec(t).req) : DoReturn(t, o)

Fairness ==
    /\ \A t \in Callers : WF_vars(Enqueue(t))
    /\ \A w \in Workers : WF_vars(Dequeue(w)) /\ WF_vars(Deliver(w))
    /\ \A t \in Threads : WF_vars(Acquire(t)) /\ WF_vars(Do(t)) /\ WF_vars(TransportReturns(t))
    /\ \A k \in 1..NumCallers : WF_vars(Receive(k))

SpecLive == InitLive /\ [][Next]_vars /\ Fairness

progVars ==
    <<scenario, opsLeft, closedLeft, requestID, requestChan, permits, threads,
      respChan, submitted, sent, crashed, chanClosed>>

\* the pure function f returns out
PureReturn(f, out) ==
    /\ pure.f = f
    /\ ~pure.done
    /\ pure' = [pure EXCEPT !.done = TRUE, !.out = out]
    /\ UNCHANGED <<group, progVars>>

FileModeCall == PureReturn("mode", mode(pure.in))

BuildRequestURICall ==
    PureReturn("buildRequestURI",
               buildRequestURI(pure.in.url, pure.in.container, pure.in.query, pure.in.path))

ParseMtimeHeaderCall == PureReturn("parseMtimeHeader", parseMtimeHeaderValue(pure.in))

StatusErrorCall ==
    PureReturn("statusError",
               [a |-> statusErrorMessage(pure.in.a), b |-> statusErrorMessage(pure.in.b)])

RoundTripCall ==
    PureReturn("roundTrip",
               decodeEncoded(encodeTypedAttributes(pure.in.attributes), pure.in.intBits))

\* sendRequest, run to its return against the transport results given
SendRequestCall ==
    PureReturn("sendRequest",
               sendRequest(pure.in.dpi, Req("GET", "GetObject", "none"),
                           pure.in.releaseResponse, pure.in.srv))

GetSectionAndIndexCall ==
    PureReturn("getSectionAndIndex",
               getSectionAndIndex(accumulatedLengths(pure.in.lengths, 1, 0), pure.in.idx))

\* the URI of the last request of DeleteStreamSync, as sendRequest builds it
DeleteStreamURICall ==
    PureReturn("deleteStream",
               buildRequestURI([ok |-> TRUE, host |-> "https://h"], pure.in.container, <<>>,
                               deleteStreamPath(pure.in.path)))

NextPure ==
    \/ FileModeCall
    \/ BuildRequestURICall
    \/ ParseMtimeHeaderCall
    \/ StatusErrorCall
    \/ RoundTripCall
    \/ SendRequestCall
    \/ GetSectionAndIndexCall
    \/ DeleteStreamURICall

SpecPure == InitPure /\ [][NextPure]_vars

\* --------------------------------------------- actions of the consumer group

InitGroup == InitWith("group", 0, 0)

\* the modifications member m may start
MayStart(m, op) ==
    IF group.member[m].pc = "out" THEN op = "join"
    ELSE /\ group.member[m].pc = "joined"
         /\ \/ op \in {"heartbeat", "leave"}
            \/ op = "seizure" /\ (group.state.members \cap group.stale) \ {m} # {}

\* member m starts a modification of the state
StartModify(m, op) ==
    /\ MayStart(m, op)
    /\ group' = [group EXCEPT !.member[m].pc = "read", !.member[m].op = op,
                              !.member[m].attempts = 0]
    /\ UNCHANGED <<pure, progVars>>

\* member m reads the state document with its modification time
ReadState(m) ==
    /\ group.member[m].pc = "read"
    /\ group' = [group EXCEPT !.member[m].pc = "write",
                              !.member[m].snapshot = group.state]
    /\ UNCHANGED <<pure, progVars>>

\* the write of member m guarded by the modification time it read goes
\* through: the member takes the document written as its snapshot and runs
\* the claim tasks of the shards it owns by it
WriteState(m) ==
    /\ group.member[m].pc = "write"
    /\ group.state.mtime = group.member[m].snapshot.mtime
    /\ group.state.mtime < MaxModifications
    /\ group' =
           [group EXCEPT
               !.state = [Modify(group.member[m].op, m, group.state, group.stale)
                              EXCEPT !.mtime = @ + 1],
               !.member[m].pc = IF group.member[m].op = "leave" THEN "out" ELSE "joined",
               !.member[m].snapshot =
                   [Modify(group.member[m].op, m, group.state, group.stale)
                        EXCEPT !.mtime = @ + 1],
               !.member[m].claims =
                   IF group.member[m].op = "leave" THEN {}
                   ELSE Owned(Modify(group.member[m].op, m, group.state, group.stale), m)]
    /\ UNCHANGED <<pure, progVars>>

\* the write of member m fails, the document having been modified since the
\* member read it: the member backs off for another attempt, or gives up
\* with a fatal session error
WriteMismatch(m) ==
    /\ group.member[m].pc = "write"
    /\ group.state.mtime # group.member[m].snapshot.mtime
    /\ group' = [group EXCEPT
                     !.member[m].attempts = @ + 1,
                     !.member[m].pc = IF Exhausted(group.member[m].attempts + 1)
                                      THEN "fatal" ELSE "backoff"]
    /\ UNCHANGED <<pure, progVars>>

\* the backoff sleep of member m is over
Backoff(m) ==
    /\ group.member[m].pc = "backoff"
    /\ group' = [group EXCEPT !.member[m].pc = "read"]
    /\ UNCHANGED <<pure, progVars>>

\* after a fatal session error the claim task of member m for shard s is
\* torn down
TearDown(m, s) ==
    /\ group.member[m].pc = "fatal"
    /\ s \in group.member[m].claims
    /\ group' = [group EXCEPT !.member[m].claims = @ \ {s},
                              !.member[m].torn = @ \cup {s}]
    /\ UNCHANGED <<pure, progVars>>

\* the process of member m is killed
Kill(m) ==
    /\ group.member[m].pc \notin {"out", "killed"}
    /\ group' = [group EXCEPT !.member[m].pc = "killed", !.member[m].claims = {}]
    /\ UNCHANGED <<pure, progVars>>

\* the heartbeat of the killed member m becomes older than the session timeout
Expire(m) ==
    /\ group.member[m].pc = "killed"
    /\ m \notin group.stale
    /\ group' = [group EXCEPT !.stale = @ \cup {m}]
    /\ UNCHANGED <<pure, progVars>>

NextGroup ==
    \/ \E m \in Members, op \in {"join", "heartbeat", "leave", "seizure"} : StartModify(m, op)
    \/ \E m \in Members : ReadState(m)
    \/ \E m \in Members : WriteState(m)
    \/ \E m \in Members : WriteMismatch(m)
    \/ \E m \in Members : Backoff(m)
    \/ \E m \in Members, s \in Shards : TearDown(m, s)
    \/ \E m \in Members : Kill(m)
    \/ \E m \in Members : Expire(m)

\* the tasks of a member run: a claim task that is to be torn down stops
FairnessGroup == \A m \in Members, s \in Shards : WF_vars(TearDown(m, s))

SpecGroup == InitGroup /\ [][NextGroup]_vars /\ FairnessGroup

\* ------------------------------------------------------------------ claims

\* the buffers of result r its caller can reach: the returned response, the
\* response attached to the returned error, and those attached to the errors
\* in PutItemsOutput.Errors
Referenced(r) ==
    ({r.resp, r.err.resp}
        \cup {r.out.Errors[i].err.resp : i \in 1..Len(r.out.Errors)}) \ {0}

\* every buffer of r is either with the caller and not released, or released once
Accounted(r) ==
    \A b \in 1..Len(r.rel) : r.rel[b] = IF b \in Referenced(r) THEN 0 ELSE 1

\* C1: when an operation returns, every response buffer it acquired is either
\* handed to the caller or released by the library exactly once.
C1_ResponsesAccountedOnce ==
    \A t \in Threads : threads[t].pc = "done" => Accounted(Exec(t))

\* the operations whose first step is a sendRequest call on the input's own
\* DataPlaneInput
SendsFirst == SyncOps \ {"PutItem", "PutItems", "UpdateItem"}

\* C2: when sendRequest ends in an error, the response is attached to the
\* error if IncludeResponseInError is set and released otherwise.
C2_ErrorResponseAttachedOrReleased ==
    \A t \in Callers :
        (threads[t].pc \in {"ready", "holding", "inDo", "done"}
            /\ threads[t].in.op \in SendsFirst) =>
        LET s == sendRequest(threads[t].in.dpi, NoReq, FALSE, threads[t].srv)
        IN  (s.st = "ret" /\ s.err # NilErr /\ s.rel # <<>>) =>
                IF threads[t].in.dpi.IncludeResponseInError
                THEN s.err.resp = 1 /\ s.rel[1] = 0
                ELSE s.err.resp = 0 /\ s.rel[1] = 1

\* C3: an operation that fails to decode a 2xx response releases the response
\* before it returns the error, unless it returns the response with the error.
C3_DecodeFailureReleasesResponse ==
    \A t \in Threads :
        (threads[t].pc = "done" /\ Exec(t).err.kind = "decode") =>
        \A b \in 1..Len(Exec(t).rel) : Exec(t).rel[b] = 1 \/ b = Exec(t).resp

\* no transport call is made or under way for an input with an empty ContainerName
NoTransportForEmptyContainer ==
    \A t \in Threads :
        (threads[t].pc # "idle" /\ threads[t].pc # "sending"
            /\ threads[t].in.dpi.ContainerName = "") =>
        threads[t].pc = "done" /\ threads[t].srv = <<>>

InDo(c) == {t \in Threads : threads[t].ctx = c /\ threads[t].pc = "inDo"}

\* C5: on a context created with MaxConns = n > 0, at most n transport calls
\* are in flight, counted over its workers and the threads calling it directly.
C5_ConnCapRespected ==
    \A c \in Contexts : maxConns(c) > 0 => Cardinality(InDo(c)) <= maxConns(c)

C5_Witness ==
    \E c \in Contexts :
        /\ maxConns(c) > 0
        /\ Cardinality(InDo(c)) = maxConns(c)
        /\ \E t \in Threads : threads[t].ctx = c /\ threads[t].pc = "ready"

\* C6: a thread is at or in a transport call only while it holds a permit, and
\* the permit is returned when the call ends, also with an error: the free
\* permits are MaxConns less the threads between Acquire and Release, so all of
\* them are free when no operation is in progress.
C6_PermitsConserved ==
    \A c \in Contexts :
        maxConns(c) > 0 =>
        permits[c] = maxConns(c)
            - Cardinality({t \in Threads : /\ threads[t].ctx = c
                                           /\ threads[t].pc \in {"holding", "inDo"}})

C6_Witness ==
    /\ \E t \in Threads :
           /\ maxConns(threads[t].ctx) > 0
           /\ threads[t].pc = "done"
           /\ Exec(t).err.kind = "transport"
    /\ \A t \in Threads : threads[t].pc \in {"idle", "done"}
    /\ \A c \in Contexts : permits[c] = maxConns(c)

RECURSIVE LeadingClosed(_)
\* the number of connection-closed results srv begins with
LeadingClosed(srv) ==
    IF srv = <<>> \/ Head(srv).err # "closed" THEN 0 ELSE 1 + LeadingClosed(Tail(srv))

\* the error sendRequest surfaces for the transport result o
Surfaced(o) ==
    IF o.err = "closed" THEN "closed"
    ELSE IF o.err # "nil" THEN "transport"
    ELSE IF o.status >= 200 /\ o.status < 300 THEN "nil"
    ELSE "status"

\* C7: if the transport returns connection-closed k times in a row and then
\* something else, sendRequest invokes it min(8, k + 1) times and ends with the
\* outcome of the last invocation; any other error ends it after one invocation.
C7_RetryOnConnectionClosed ==
    \A t \in Threads :
        threads[t].pc \in {"holding", "inDo", "done"} =>
        LET srv == threads[t].srv
            k == LeadingClosed(srv)
            r == Exec(t)
        IN  IF threads[t].pc = "done"
            THEN /\ Len(srv) = (IF k + 1 < 8 THEN k + 1 ELSE 8)
                 /\ r.err.kind = Surfaced(srv[Len(srv)])
            ELSE Len(srv) = k /\ k < 8

C7_Witness ==
    \E t \in Threads :
        /\ threads[t].pc = "done"
        /\ Len(threads[t].srv) = 8
        /\ LeadingClosed(threads[t].srv) = 7
        /\ Exec(t).err = NilErr

\* C8: the response a worker delivers for a request carries the outcome of the
\* corresponding synchronous operation on the same input and the same server
\* results.
C8_AsyncEqualsSync ==
    \A i \in 1..Len(sent) :
        LET s == SyncCall(sent[i].req.Input, sent[i].srv)
        IN  /\ s.st = "ret"
            /\ sent[i].resp.Error = s.err
            /\ sent[i].resp.resp = s.resp
            /\ sent[i].resp.out = s.out

\* request q is on its way: with its submitter, in a queue, or with a worker
Pending(q) ==
    \/ \E t \in Threads : threads[t].pc # "idle" /\ threads[t].req = q
    \/ \E c \in Contexts : \E i \in 1..Len(requestChan[c]) : requestChan[c][i] = q

\* C9: each request gets exactly one response, none while it is on its way and
\* one from then on, sent on its ResponseChan with its ID, its Context and the
\* error of the operation the worker ran.
C9_ExactlyOneResponse ==
    \A j \in 1..Len(submitted) :
        LET q == submitted[j].req
            rs == {i \in 1..Len(sent) : sent[i].req.ID = q.ID}
        IN  /\ Cardinality(rs) = (IF Pending(q) THEN 0 ELSE 1)
            /\ \A i \in rs :
                   /\ sent[i].chan = q.ResponseChan
                   /\ sent[i].resp.ID = q.ID
                   /\ sent[i].resp.Context = q.Context
                   /\ sent[i].resp.Error = workerSwitch(q.Input, sent[i].srv).err

C9_Witness ==
    /\ Len(sent) = 2
    /\ sent[1].resp.Error # NilErr
    /\ sent[2].resp.Error = NilErr
    /\ sent[1].req.Context # sent[2].req.Context

\* C10: no two requests get the same ID, and the IDs a thread gets increase.
C10_UniqueIncreasingIDs ==
    \A i, j \in 1..Len(submitted) :
        i < j =>
        /\ submitted[i].req.ID # submitted[j].req.ID
        /\ submitted[i].by = submitted[j].by => submitted[i].req.ID < submitted[j].req.ID

C10_Witness ==
    /\ Len(submitted) = 2
    /\ submitted[1].by # submitted[2].by
    /\ submitted[1].ctx # submitted[2].ctx
    /\ threads[submitted[1].by].pc = "sending"
    /\ threads[submitted[2].by].pc = "sending"

\* C11: an asynchronous operation called with an already cancelled Ctx does
\* not put its request on the request queue, and no worker executes it.
C11_CancelledNotEnqueued ==
    /\ \A c \in Contexts : \A i \in 1..Len(requestChan[c]) :
           ~requestChan[c][i].Input.dpi.Cancelled
    /\ \A w \in Workers :
           threads[w].pc # "idle" => ~threads[w].req.Input.dpi.Cancelled

\* C12: after the request queue is closed no worker reads from the queue and
\* dereferences what it got: a worker of a closed queue never panics.
C12_WorkersExitOnClose ==
    \A w \in Workers : chanClosed[w[2]] => threads[w].pc # "panic"

\* the requests of context c that a worker has taken from the queue
Taken(c) ==
    {threads[w].req : w \in {v \in Workers : v[2] = c /\ threads[v].pc # "idle"}}
        \cup {sent[i].req : i \in {j \in 1..Len(sent) : sent[j].ctx = c}}

\* C13: the requests one producer submits to a context sit in the queue in
\* submission order and leave it in submission order, and on a context with
\* exactly one worker the responses on one response channel are sent in
\* submission order.
C13_FIFOAndSingleWorkerOrder ==
    /\ \A c \in Contexts : \A i, j \in 1..Len(requestChan[c]) :
           (i < j /\ requestChan[c][i].ResponseChan = requestChan[c][j].ResponseChan)
               => requestChan[c][i].ID < requestChan[c][j].ID
    /\ \A c \in Contexts : \A i \in 1..Len(requestChan[c]) : \A r \in Taken(c) :
           r.ResponseChan = requestChan[c][i].ResponseChan
               => r.ID < requestChan[c][i].ID
    /\ \A t \in Callers : \A c \in Contexts :
           (threads[t].pc = "sending" /\ threads[t].ctx = c) =>
               /\ \A r \in Taken(c) :
                      r.ResponseChan = threads[t].req.ResponseChan
                          => r.ID < threads[t].req.ID
               /\ \A i \in 1..Len(requestChan[c]) :
                      requestChan[c][i].ResponseChan = threads[t].req.ResponseChan
                          => requestChan[c][i].ID < threads[t].req.ID
    /\ \A i, j \in 1..Len(sent) :
           (/\ i < j
            /\ sent[i].chan = sent[j].chan
            /\ sent[i].ctx = sent[j].ctx
            /\ numWorkers(sent[i].ctx) = 1)
               => sent[i].req.ID < sent[j].req.ID

\* two responses of one producer on one response channel, from a context with
\* two workers, were sent in the opposite order to their submission
C13_Witness ==
    \E i, j \in 1..Len(sent) :
        /\ i < j
        /\ sent[i].chan = sent[j].chan
        /\ sent[i].ctx = sent[j].ctx
        /\ numWorkers(sent[i].ctx) >= 2
        /\ sent[i].req.ID > sent[j].req.ID

\* two requests of one producer were queued together and both were answered
\* by the only worker of their context
C13_WitnessSingleWorker ==
    \E i, j \in 1..Len(sent) :
        /\ i < j
        /\ sent[i].chan = sent[j].chan
        /\ sent[i].ctx = sent[j].ctx
        /\ numWorkers(sent[i].ctx) = 1

\* the transport results that end a request: a connection-closed result is
\* followed by a resend of the same request
RequestResults(srv) == SelectSeq(srv, LAMBDA o : o.err # "closed")

\* the transport result o is a failure of its request
FailedResult(o) == o.err # "nil" \/ o.status < 200 \/ o.status >= 300

\* thread t has returned from op
Returned(t, op) == threads[t].pc = "done" /\ threads[t].in.op = op

\* the input passes the checks sendRequest makes before it builds a request
Sendable(in) == in.dpi.ContainerName # "" /\ in.dpi.URLok

\* the entries of items up to the i-th whose attributes can be encoded
Encodable(items, i) == {j \in 1..i : items[j].enc}

\* the keys of Errors, and the keys whose putItem failed: no request could be
\* sent, or the request the entry got failed
ErrorKeys(out) == {out.Errors[k].key : k \in 1..Len(out.Errors)}
FailingKeys(in, srv) ==
    {in.items[i].key : i \in
        {j \in 1..Len(in.items) :
            \/ ~Sendable(in)
            \/ ~in.items[j].enc
            \/ FailedResult(RequestResults(srv)[Cardinality(Encodable(in.items, j))])}}

\* what PutItemsSync reports: it returns no error, Errors holds each failing
\* key once, and Success says that Errors is empty
PutItemsReport(t) ==
    /\ Exec(t).err = NilErr
    /\ Len(Exec(t).out.Errors) = Cardinality(ErrorKeys(Exec(t).out))
    /\ ErrorKeys(Exec(t).out) = FailingKeys(threads[t].in, threads[t].srv)
    /\ Exec(t).out.Success <=> Exec(t).out.Errors = <<>>

\* C14 as stated: PutItemsSync issues exactly one PutItem request per entry
\* of Items, goes on after a failure, records in Errors exactly the failing
\* keys, and sets Success iff Errors is empty.
C14_OneRequestPerEntry ==
    \A t \in Threads : Returned(t, "PutItems") =>
        /\ Len(RequestResults(threads[t].srv)) = Len(threads[t].in.items)
        /\ PutItemsReport(t)

\* C14 amended: PutItemsSync issues exactly one PutItem request per entry of
\* Items whose attributes can be encoded, and none at all when the container
\* name is empty or the URL does not parse; it goes on after a failure,
\* records in Errors exactly the failing keys, and sets Success iff Errors is
\* empty.
C14_OneRequestPerEncodableEntry ==
    \A t \in Threads : Returned(t, "PutItems") =>
        /\ Len(RequestResults(threads[t].srv)) =
               IF Sendable(threads[t].in)
               THEN Cardinality(Encodable(threads[t].in.items, Len(threads[t].in.items)))
               ELSE 0
        /\ PutItemsReport(t)

\* PutItemsSync returned for two entries: the first entry's request failed,
\* the second entry's request was sent all the same and succeeded
C14_Witness ==
    \E t \in Threads :
        /\ Returned(t, "PutItems")
        /\ Len(threads[t].in.items) = 2
        /\ Len(RequestResults(threads[t].srv)) = 2
        /\ ErrorKeys(Exec(t).out) = {threads[t].in.items[1].key}
        /\ ~Exec(t).out.Success

\* the largest element of a non-empty set of numbers
Max(S) == CHOOSE x \in S : \A y \in S : y <= x

\* the positions of the failed results in rs
FailedAt(rs) == {i \in 1..Len(rs) : FailedResult(rs[i])}

\* err is the error sendRequest makes of the failed transport result o
ErrorOfResult(err, o) ==
    IF o.err # "nil" THEN err.kind = "transport"
    ELSE err.kind = "status" /\ err.status = o.status

\* err is the last error among the results deletes of the deletes performed
LastErrorWins(err, deletes) ==
    IF FailedAt(deletes) = {} THEN err = NilErr
    ELSE err # NilErr /\ ErrorOfResult(err, deletes[Max(FailedAt(deletes))])

\* the listing of the stream's children succeeded with result o
Listed(o) == o.err = "nil" /\ o.status = 200 /\ o.body = "ok"

\* DeleteStreamSync after the listing rs[1]: one delete per listed child and
\* one of the stream directory, and the error of the last failed one
DeletesAllLastErrorWins(err, rs) ==
    /\ Len(rs) = 1 + rs[1].n + 1
    /\ LastErrorWins(err, SubSeq(rs, 2, Len(rs)))

\* C15: DeleteStreamSync lists the children, deletes each listed child and
\* then the stream directory whatever failed before, and returns the last
\* error that occurred among these deletes, nil only if none failed.
C15_DeleteStreamLastErrorWins ==
    \A t \in Threads :
        (/\ Returned(t, "DeleteStream")
         /\ RequestResults(threads[t].srv) # <<>>
         /\ Listed(RequestResults(threads[t].srv)[1]))
            => DeletesAllLastErrorWins(Exec(t).err, RequestResults(threads[t].srv))

\* a pure function f has returned
PureDone(f) == pure.f = f /\ pure.done

\* bit k of the 32-bit mode [hi, lo]
ModeBit(m, k) ==
    IF k >= 16 THEN (m.hi \div 2 ^ (k - 16)) % 2 = 1 ELSE (m.lo \div 2 ^ k) % 2 = 1

\* os.FileMode: the file-type bits (ModeType, the directory bit is bit 31)
\* and Perm()
ModeTypeBits == {31, 27, 26, 25, 24, 21, 19}
IsRegular(m) == \A k \in ModeTypeBits : ~ModeBit(m, k)
Perm(m) == m.lo % 512

\* the string has no value in its base: it is empty, or has a character that
\* is not a digit of the base
NoNumber(s) ==
    \/ s = <<>>
    \/ \E i \in 1..Len(s) : DigitValue(s[i]) >= (IF s[1] = "0" THEN 8 ELSE 10)

\* C16: "0100664" and "33204" decode to a regular file with permission bits
\* 0664, "040775" to a mode with the directory bit and permission bits 0775; a
\* decimal string is used as it is; the result is a 32-bit mode, made of bits
\* 12..15 of an octal value moved up by 17 and of its low 13 bits; a string
\* with no value in its base, or none below 2^32, yields an error.
C16_FileModeDecoding ==
    PureDone("mode") =>
        /\ pure.in \in {<<"0", "1", "0", "0", "6", "6", "4">>, <<"3", "3", "2", "0", "4">>}
               => /\ pure.out.err = "nil"
                  /\ IsRegular(pure.out)
                  /\ Perm(pure.out) = 6 * 64 + 6 * 8 + 4
        /\ pure.in = <<"0", "4", "0", "7", "7", "5">>
               => /\ pure.out.err = "nil"
                  /\ ModeBit(pure.out, 31)
                  /\ Perm(pure.out) = 7 * 64 + 7 * 8 + 5
        /\ NoNumber(pure.in) => pure.out.err # "nil"
        /\ (~NoNumber(pure.in) /\ Len(pure.in) <= MaxModeLen) => pure.out.err = "nil"
        /\ pure.in = <<"0", "3", "7", "7", "7", "7", "7", "7", "7", "7", "7", "7">>
               => /\ pure.out.err = "nil"
                  /\ \A k \in 0..31 : ModeBit(pure.out, k) <=> k \in (0..12) \cup (29..31)
        /\ pure.in = <<"4", "2", "9", "4", "9", "6", "7", "2", "9", "5">>
               => /\ pure.out.err = "nil"
                  /\ \A k \in 0..31 : ModeBit(pure.out, k)
        /\ pure.in \in {<<"0", "4", "0", "0", "0", "0", "0", "0", "0", "0", "0", "0">>,
                        <<"4", "2", "9", "4", "9", "6", "7", "2", "9", "6">>}
               => pure.out.err # "nil"

\* the octal directory mode "040775" has been decoded
C16_Witness ==
    /\ PureDone("mode")
    /\ pure.in = <<"0", "4", "0", "7", "7", "5">>
    /\ pure.out.err = "nil"

\* s begins with the string pre
HasPrefix(s, pre) == Len(s) >= Len(pre) /\ SubSeq(s, 1, Len(pre)) = pre

\* s has two slashes in a row
DoubleSlash(s) == \E i \in 1..(Len(s) - 1) : s[i] = "/" /\ s[i + 1] = "/"

\* the path p is "/" + container, alone or followed by "/" and more
InContainer(p, container) ==
    /\ HasPrefix(p, <<"/">> \o container)
    /\ Len(p) > Len(container) + 1 => p[Len(container) + 2] = "/"

\* C17: for a URL that parses, buildRequestURI gives the URL's host with a
\* path that has no duplicate slashes, is "/" + container followed by the
\* cleaned path, and ends with a slash iff the input path does, and with the
\* query in RawQuery; for https://h/, c, /a//b/ and k=v it gives
\* https://h/c/a/b/ with RawQuery k=v.
C17_NormalisedURI ==
    (PureDone("buildRequestURI") /\ pure.in.url.ok) =>
        /\ pure.out.err = "nil"
        /\ pure.out.Host = pure.in.url.host
        /\ ~DoubleSlash(pure.out.Path)
        /\ InContainer(pure.out.Path, pure.in.container)
        /\ HasSuffixSlash(pure.out.Path) <=> HasSuffixSlash(pure.in.path)
        /\ (\A i \in 1..Len(pure.in.query) : pure.in.query[i] # " ")
               => pure.out.RawQuery = pure.in.query
        /\ (pure.in.path = <<"/", "a", "/", "/", "b", "/">> /\ pure.in.query = <<"k", "=", "v">>)
               => /\ pure.out.Path = <<"/", "c", "/", "a", "/", "b", "/">>
                  /\ pure.out.RawQuery = <<"k", "=", "v">>

\* C18: parseMtimeHeader returns (1, 2) and no error for the header
\* "__mtime_secs==1 and __mtime_nsecs==2", and an error, neither a result
\* nor a crash, for a header of any other shape.
C18_MtimeHeaderShape ==
    PureDone("parseMtimeHeader") =>
        IF pure.in = <<"__mtime_secs", "==", "1", "and", "__mtime_nsecs", "==", "2">>
        THEN pure.out = MtimeResult("ok", 1, 2)
        ELSE pure.out.st = "error"

\* the message msg has the word key in it
Mentions(msg, key) == \E i \in 1..Len(msg.request) : msg.request[i].value = key

\* neither message has the access key of its request in it
KeyRedacted ==
    /\ pure.in.a.AccessKey # "" => ~Mentions(pure.out.a, pure.in.a.AccessKey)
    /\ pure.in.b.AccessKey # "" => ~Mentions(pure.out.b, pure.in.b.AccessKey)

\* C19 as stated: the status error message never has the access key in it,
\* and two executions that differ only in AccessKey give identical messages.
C19_MessageIndependentOfKey ==
    PureDone("statusError") =>
        /\ KeyRedacted
        /\ pure.out.a = pure.out.b

\* C19 amended: the status error message never has the access key in it, and
\* two executions that differ only in AccessKey give identical messages when
\* both keys are non-empty or both are empty: the message shows whether a key
\* was sent.
C19_MessageIndependentOfKeyValue ==
    PureDone("statusError") =>
        /\ KeyRedacted
        /\ (pure.in.a.AccessKey = "" <=> pure.in.b.AccessKey = "")
               => pure.out.a = pure.out.b

\* the messages of two requests with different non-empty access keys
C19_Witness ==
    /\ PureDone("statusError")
    /\ pure.in.a.AccessKey # ""
    /\ pure.in.b.AccessKey # ""
    /\ pure.in.a.AccessKey # pure.in.b.AccessKey

\* the value v, with int and int64 taken for one kind of integer
AsInteger(v) == IF v.kind \in {"int", "int64"} THEN [v EXCEPT !.kind = "integer"] ELSE v

\* C20: for every attribute map with values of the supported kinds,
\* decodeTypedAttributes(encodeTypedAttributes(m)) gives no error and a map
\* with the same names and equal values: an integer comes back as the same
\* integer, a float, a string, a byte slice, a boolean and a time as they were.
C20_RoundTrip ==
    PureDone("roundTrip") =>
        /\ pure.out.err = "nil"
        /\ DOMAIN pure.out.attributes = DOMAIN pure.in.attributes
        /\ \A name \in DOMAIN pure.in.attributes :
               AsInteger(pure.out.attributes[name]) = AsInteger(pure.in.attributes[name])

\* the transport result sendRequest ended on
LastResult == pure.in.srv[Len(pure.in.srv)]

\* C21: sendRequest returns no error for a status in 200..299 and an error
\* that carries the status for every other status; it never returns a
\* response together with an error, and returns a response only for a 2xx
\* status when the caller did not ask for the response to be released.
C21_StatusClassification ==
    (PureDone("sendRequest") /\ pure.out.st = "ret") =>
        /\ (Sendable(pure.in) /\ LastResult.err = "nil") =>
               IF LastResult.status \in 200..299
               THEN pure.out.err = NilErr
               ELSE pure.out.err.kind = "status" /\ pure.out.err.status = LastResult.status
        /\ ~(pure.out.resp # 0 /\ pure.out.err # NilErr)
        /\ pure.out.resp # 0 =>
               /\ LastResult.err = "nil"
               /\ LastResult.status \in 200..299
               /\ ~pure.in.releaseResponse

\* sendRequest returned for the statuses at both ends of the 2xx range and
\* next to them
C21_Witness ==
    /\ PureDone("sendRequest")
    /\ pure.out.st = "ret"
    /\ Sendable(pure.in)
    /\ LastResult.status = 300
    /\ pure.out.err.kind = "status"

\* the operation of thread t puts the attributes of one item, and they hold
\* a value of a type encodeTypedAttributes has no case for
PutsUnsupported(t) ==
    /\ threads[t].pc # "idle"
    /\ ~threads[t].in.enc
    /\ \/ threads[t].in.op = "PutItem"
       \/ threads[t].in.op = "UpdateItem" /\ threads[t].in.form \in {"attrs", "both"}

\* C22: PutItemSync and UpdateItemSync with attributes reject an attribute
\* map with a value of an unsupported type before any I/O: they return an
\* error and no response, the transport is never invoked and no response
\* buffer is acquired.
C22_UnsupportedRejectedBeforeIO ==
    \A t \in Threads : PutsUnsupported(t) =>
        /\ threads[t].pc = "done"
        /\ Exec(t).err # NilErr
        /\ Exec(t).resp = 0
        /\ threads[t].srv = <<>>
        /\ Exec(t).rel = <<>>

\* UpdateItemSync returned for attributes with a value of an unsupported type
C22_Witness ==
    \E t \in Threads :
        /\ PutsUnsupported(t)
        /\ threads[t].in.op = "UpdateItem"
        /\ threads[t].in.dpi.ContainerName # ""
        /\ threads[t].in.dpi.URLok
        /\ threads[t].pc = "done"

\* the values of the sections before section s (counted from 0)
RECURSIVE ValuesBefore(_, _)
ValuesBefore(lengths, s) == IF s = 0 THEN 0 ELSE ValuesBefore(lengths, s - 1) + lengths[s]

\* section s (counted from 0) holds the value of global index idx
Holds(lengths, s, idx) ==
    /\ ValuesBefore(lengths, s) <= idx
    /\ idx < ValuesBefore(lengths, s) + lengths[s + 1]

\* C27: for an index below the total number of values, getSectionAndIndex
\* returns the one section whose range of cumulative lengths holds the index
\* and the index's offset inside that section, which is below the section's
\* length; with one section, and with empty sections among them.
C27_SectionAndIndex ==
    (/\ PureDone("getSectionAndIndex")
     /\ pure.in.idx < ValuesBefore(pure.in.lengths, Len(pure.in.lengths))) =>
        /\ pure.out[1] \in 0..(Len(pure.in.lengths) - 1)
        /\ Holds(pure.in.lengths, pure.out[1], pure.in.idx)
        /\ \A s \in 0..(Len(pure.in.lengths) - 1) :
               Holds(pure.in.lengths, s, pure.in.idx) => s = pure.out[1]
        /\ pure.out[2] = pure.in.idx - ValuesBefore(pure.in.lengths, pure.out[1])
        /\ pure.out[2] >= 0
        /\ pure.out[2] < pure.in.lengths[pure.out[1] + 1]

C27_Witness ==
    /\ PureDone("getSectionAndIndex")
    /\ pure.in.lengths = <<1, 0, 2>>
    /\ pure.in.idx = 2
    /\ pure.out = <<2, 1>>

\* the path p is made of names and slashes, with a name in it
PlainPath(p) ==
    /\ \A i \in 1..Len(p) : p[i] # "."
    /\ \E i \in 1..Len(p) : p[i] # "/"

\* the names of the plain path p, in order
Names(p) == SelectSeq(Split(p, "/"), LAMBDA e : e # <<>>)

RECURSIVE StripSlashes(_)
\* the path p without the slashes at its end
StripSlashes(p) ==
    IF HasSuffixSlash(p) THEN StripSlashes(SubSeq(p, 1, Len(p) - 1)) ELSE p

\* C28: for a stream path of names, with or without a slash at its end, the
\* last DELETE of DeleteStreamSync goes to the directory of that stream in
\* the container: "/" + container + "/" + the names of the path, and so
\* neither to the parent directory nor to the root of the container.
C28_DeletesStreamDirectory ==
    (PureDone("deleteStream") /\ PlainPath(pure.in.path)) =>
        StripSlashes(pure.out.Path) = rooted(<<pure.in.container>> \o Names(pure.in.path), 1)

\* C29: the path of the URI buildRequestURI builds is "/" + container or
\* begins with "/" + container + "/", for every path, those with ".."
\* elements included.
C29_StaysInContainer ==
    (PureDone("buildRequestURI") /\ pure.in.url.ok) =>
        \/ pure.out.Path = <<"/">> \o pure.in.container
        \/ HasPrefix(pure.out.Path, <<"/">> \o pure.in.container \o <<"/">>)

\* thread t runs UpdateItemSync on an input of form f
Updates(t, f) ==
    /\ threads[t].pc # "idle"
    /\ threads[t].in.op = "UpdateItem"
    /\ threads[t].in.form = f

\* the i-th response delivered answers an UpdateItem request of form f
Updated(i, f) ==
    /\ sent[i].req.Input.op = "UpdateItem"
    /\ sent[i].req.Input.form = f

\* C30: UpdateItemSync with neither Attributes nor Expression makes no HTTP
\* request and returns a nil response and a nil error, and the worker then
\* delivers a response with no error and no output; with both set, every
\* request it makes is the PutItem request of the attributes form, whose
\* UpdateMode is the one given or else CreateOrReplaceAttributes, and which
\* has no expression.
C30_UpdateItemForms ==
    /\ \A t \in Threads : Updates(t, "none") =>
           /\ threads[t].pc = "done"
           /\ threads[t].srv = <<>>
           /\ Exec(t).st = "ret"
           /\ Exec(t).resp = 0
           /\ Exec(t).err = NilErr
           /\ Exec(t).rel = <<>>
    /\ \A i \in 1..Len(sent) : Updated(i, "none") =>
           /\ sent[i].srv = <<>>
           /\ sent[i].resp.Error = NilErr
           /\ sent[i].resp.out = NoOut
           /\ sent[i].resp.ID = sent[i].req.ID
    /\ \A t \in Threads : (Updates(t, "both") /\ Exec(t).st = "call") =>
           /\ Exec(t).req.method = "PUT"
           /\ Exec(t).req.fn = "PutItem"
           /\ Exec(t).req.body.Item
           /\ ~Exec(t).req.body.UpdateExpression
           /\ Exec(t).req.body.UpdateMode =
                  (IF threads[t].in.mode = "" THEN "CreateOrReplaceAttributes"
                   ELSE threads[t].in.mode)

C30_Witness ==
    \E i \in 1..Len(sent) :
        /\ Updated(i, "none")
        /\ sent[i].req.Input.dpi.ContainerName # ""
        /\ sent[i].resp.Error = NilErr

C30_WitnessBoth ==
    \E t \in Workers :
        /\ Updates(t, "both")
        /\ threads[t].in.mode = ""
        /\ threads[t].pc = "inDo"
        /\ Exec(t).req.body.UpdateMode = "CreateOrReplaceAttributes"

\* the asynchronous call for request id has returned: the request is in
\* the queue or was taken from it
Accepted(id) ==
    /\ \E i \in 1..Len(submitted) : submitted[i].req.ID = id
    /\ \A t \in Callers : threads[t].pc = "sending" => threads[t].req.ID # id

\* the response to request id was put on its response channel
Delivered(id) == \E i \in 1..Len(sent) : sent[i].req.ID = id

\* C26: with callers that drain their response channels and a transport
\* that returns, every request an asynchronous call accepted has its
\* response delivered in the end; a producer is blocked in the call only
\* while the request queue is full, and a worker is blocked on delivery only
\* while the caller's response channel is full.
C26_EveryAcceptedRequestAnswered ==
    /\ [](\A t \in Callers :
              (~crashed /\ threads[t].pc = "sending" /\ ~ENABLED Enqueue(t))
                  => Len(requestChan[threads[t].ctx]) = RequestChanLen)
    /\ [](\A w \in Workers :
              (~crashed /\ threads[w].pc = "done" /\ ~ENABLED Deliver(w))
                  => Len(respChan[threads[w].req.ResponseChan]) = ResponseChanLen)
    /\ \A id \in 1..MaxRequests : Accepted(id) ~> Delivered(id)

====
